---- MODULE Spec2Model ----
(***************************************************************************)
(* A model of the HTTP server runtime: the route table and its            *)
(* registration (src/src/server.rs, src/src/router.rs), pattern matching  *)
(* and resolution (src/src/routing.rs), the accept loop with the          *)
(* per-connection dispatch (src/src/server.rs), the response builder and  *)
(* serializer (src/src/http/response.rs, src/src/response.rs) and the     *)
(* request parser (src/src/request.rs).                                   *)
(*                                                                         *)
(* Strings are sequences of one-character strings: "/a" is <<"/", "a">>.  *)
(***************************************************************************)
EXTENDS Integers, Sequences, FiniteSets, TLC

VARIABLES
    routes,       \* Server.routes: Vec<Route>, in table order
    lpc,          \* position of the main thread: setup, then the accept loop
    accepted,     \* number of connections accepted so far
    stream,       \* the connection of the current loop iteration
    hpc,          \* position of the worker inside handle_connection
    parsed,       \* result of Request::read for the current connection
    resolved,     \* result of resolve for the current connection
    events,       \* history: what was done on the current connection
    invoked,      \* history: the request the handler was called with
    worker,       \* the pool thread running handle_connection, 0 for none
    mr_route,     \* match_route: argument `route`
    mr_incoming,  \* match_route: argument `incoming`
    mr_result,    \* match_route: <<>> before the call, then << the value returned >>
    resp,         \* HttpResponse: the value the builder steps have made
    resp_calls,   \* history: the header()/with_header()/redirect() calls made
    resp_steps,   \* number of builder steps applied to resp
    resp_out,     \* to_string: <<>> before the call, then << the text >>
    rd_sent,      \* history: the request a client sends, as its parts
    rd_data,      \* the bytes of it that arrive on the stream
    rd_end,       \* what the stream does after these bytes
    rd_result,    \* Request::read: <<>> before the call, then << the result >>
    rd_wire,      \* <<>>, then << the bytes handle_connection writes >>
    rd_reads,     \* the sizes of the read_exact calls Request::read made
    sz_pc,        \* the loop of Request::read by sizes: "loop", "done"
    sz_lines,     \* number of lines pushed
    sz_acc,       \* bytes the lines pushed hold
    sz_buf,       \* buffer.buffer().len(): bytes read ahead and not consumed
    sz_result,    \* "-", then the kind of the result of Request::read
    fn_call,      \* <<>>, then << the function called, its arguments >>
    fn_result,    \* <<>>, then << its result >>
    registered    \* history: the registrations made on a table, in order

vars == << routes, lpc, accepted, stream, hpc, parsed, resolved,
           events, invoked, worker, mr_route, mr_incoming, mr_result,
           resp, resp_calls, resp_steps, resp_out,
           rd_sent, rd_data, rd_end, rd_result, rd_wire, rd_reads,
           sz_pc, sz_lines, sz_acc, sz_buf, sz_result, fn_call, fn_result,
           registered >>

serverVars == << routes, lpc, accepted, stream, hpc, parsed,
                 resolved, events, invoked, worker >>

matchVars == << mr_route, mr_incoming, mr_result >>

respVars == << resp, resp_calls, resp_steps, resp_out >>

readVars == << rd_sent, rd_data, rd_end, rd_result, rd_wire, rd_reads >>

\* the variables of the specifications of single functions
sizeVars == << sz_pc, sz_lines, sz_acc, sz_buf, sz_result >>

fnVars == << fn_call, fn_result, registered >>

pureVars == << matchVars, respVars, readVars, sizeVars, fnVars >>

----------------------------------------------------------------------------
(* Bounds *)

MaxRoutes == 2
MaxConns == 2
PoolSize == 2
MaxRouteLen == 4
MaxIncomingLen == 6

----------------------------------------------------------------------------
(* Strings *)

Strings(chars, n) == UNION { [1..k -> chars] : k \in 0..n }

RECURSIVE split_acc(_, _, _, _, _)
split_acc(s, sep, i, cur, acc) ==
    IF i > Len(s) THEN Append(acc, cur)
    ELSE IF s[i] = sep
         THEN split_acc(s, sep, i + 1, <<>>, Append(acc, cur))
         ELSE split_acc(s, sep, i + 1, Append(cur, s[i]), acc)

\* str::split(sep): the pieces between the separators, empty pieces kept
split(s, sep) == split_acc(s, sep, 1, <<>>, <<>>)

starts_with(s, c) == Len(s) > 0 /\ s[1] = c

RECURSIVE trim_start_matches(_, _)
trim_start_matches(s, c) ==
    IF starts_with(s, c) THEN trim_start_matches(Tail(s), c) ELSE s

\* Path::new(prefix).join(path.trim_start_matches('/')): the child is never
\* absolute, so it is appended, after a separator unless the prefix is empty
\* or already ends with one
join_path(prefix, path) ==
    LET child == trim_start_matches(path, "/")
        need_sep == Len(prefix) > 0 /\ prefix[Len(prefix)] # "/"
    IN  IF need_sep THEN prefix \o <<"/">> \o child ELSE prefix \o child

----------------------------------------------------------------------------
(* Routing: src/src/routing.rs *)

RECURSIVE match_parts(_, _, _)
match_parts(route_parts, incoming_parts, i) ==
    IF i > Len(route_parts) THEN TRUE
    ELSE IF starts_with(route_parts[i], ":")
         THEN match_parts(route_parts, incoming_parts, i + 1)
         ELSE IF route_parts[i] # incoming_parts[i]
              THEN FALSE
              ELSE match_parts(route_parts, incoming_parts, i + 1)

\* variant: the length test left out, zip() stopping at the shorter sequence
match_route_zip(route, incoming) ==
    LET route_parts == split(route, "/")
        incoming_parts == split(incoming, "/")
        n == IF Len(route_parts) < Len(incoming_parts)
             THEN Len(route_parts) ELSE Len(incoming_parts)
    IN  match_parts(SubSeq(route_parts, 1, n), SubSeq(incoming_parts, 1, n), 1)

match_route(route, incoming) ==
    LET route_parts == split(route, "/")
        incoming_parts == split(incoming, "/")
    IN  IF Len(route_parts) # Len(incoming_parts)
        THEN FALSE
        ELSE match_parts(route_parts, incoming_parts, 1)

HttpMethod == {"GET", "POST", "PUT", "PATCH", "DELETE", "HEAD", "OPTIONS", "TRACE"}

RouteOk(i) == [kind |-> "Ok", idx |-> i]
RouteError(e) == [kind |-> e, idx |-> 0]

RECURSIVE resolve_from(_, _, _, _)
resolve_from(path, method, table, i) ==
    IF i > Len(table) THEN RouteError("NotFound")
    ELSE IF match_route(table[i].path, path)
         THEN IF table[i].method = method
              THEN RouteOk(i)
              ELSE RouteError("MethodNotAllowed")
         ELSE resolve_from(path, method, table, i + 1)

\* variant: a route whose path matches and whose method differs is skipped,
\* and the scan ends with NotFound
resolve_skipping(path, method, table) ==
    LET both == { i \in DOMAIN table :
                    match_route(table[i].path, path) /\ table[i].method = method }
    IN  IF both = {} THEN RouteError("NotFound")
        ELSE RouteOk(CHOOSE i \in both : \A j \in both : i <= j)

\* variant: the scan keeps the last route that matches instead of returning
\* at the first
resolve_last(path, method, table) ==
    LET both == { i \in DOMAIN table :
                    match_route(table[i].path, path) /\ table[i].method = method }
    IN  IF both = {} THEN resolve_from(path, method, table, 1)
        ELSE RouteOk(CHOOSE i \in both : \A j \in both : i >= j)

\* RouteResolver::resolve: the route is returned as its position in the table
resolve(path, method, table) == resolve_from(path, method, table, 1)

----------------------------------------------------------------------------
(* Registration: src/src/server.rs, src/src/router.rs *)

Route(path, method, handler) ==
    [path |-> path, method |-> method, handler |-> handler]

\* Iterator::position: the first index whose route has this path and method,
\* 0 for None
position(table, path, method) ==
    LET hits == { i \in 1..Len(table) :
                    table[i].path = path /\ table[i].method = method }
    IN  IF hits = {} THEN 0 ELSE CHOOSE i \in hits : \A j \in hits : i <= j

\* Vec::insert(index, element): the elements from index on shift right
insert(table, idx, r) ==
    SubSeq(table, 1, idx - 1) \o << r >> \o SubSeq(table, idx, Len(table))

\* Server::register_route
register_route(table, path, method, handler) ==
    LET matching_route_idx == position(table, path, method)
    IN  IF matching_route_idx # 0
        THEN insert(table, matching_route_idx, Route(path, method, handler))
        ELSE Append(table, Route(path, method, handler))

\* RouteGroup::register_route
group_register_route(prefix, table, path, method, handler) ==
    Append(table, Route(join_path(prefix, path), method, handler))

----------------------------------------------------------------------------
(* Responses: the named constructors of HttpResponse. A response is         *)
(* identified by its status code; write_response serializes and writes it. *)

created == 201
not_found == 404
method_not_allowed == 405
request_entity_too_large == 413
internal_server_error == 500

Handlers == {"h_created", "h_err"}

\* A handler is application code: fn(&Request) -> io::Result<HttpResponse>.
\* h_created returns Ok(HttpResponse::created()), h_err returns Err.
call_handler(h) ==
    IF h = "h_created" THEN [ok |-> TRUE, code |-> created]
    ELSE [ok |-> FALSE, code |-> 0]

----------------------------------------------------------------------------
(* The dispatcher: src/src/server.rs *)

RegMethods == {"GET", "POST"}
RegPaths == { <<"/", "a">>, <<"/", ":">> }
GroupPrefixes == { <<"/">> }
GroupPaths == { <<"/", "a">>, <<":">> }

ReqMethods == {"GET", "POST"}
ReqPaths == { <<"/", "a">>, <<"/", "b">>, <<"/", "a", "/", "b">> }

\* The results of Request::read: a Request (its method and path) or one of
\* the kinds of RequestError
ReadErrors == {"ReadError", "InvalidRequest", "RequestTooLarge",
               "ConnectionClosed", "ConnectionTimedOut", "ParseError"}
ReadOk(m, p) == [kind |-> "Ok", method |-> m, path |-> p, params |-> {}]
ReadErr(k) == [kind |-> k, method |-> "-", path |-> <<>>, params |-> {}]
ReadResults ==
    { ReadOk(m, p) : m \in ReqMethods, p \in ReqPaths }
        \cup { ReadErr(k) : k \in ReadErrors }

NoRead == [kind |-> "-", method |-> "-", path |-> <<>>, params |-> {}]
NoRoute == [kind |-> "-", idx |-> 0]

Event(ev, by, code, ok) == [ev |-> ev, by |-> by, code |-> code, ok |-> ok]

\* Server::send_response: write_response, whose failure is logged and dropped
send_response(evs, by, code, write_ok) ==
    Append(evs, Event("send", by, code, write_ok))

\* variant: RequestTooLarge falls into the arm of the other errors
read_error_response_merged(kind) ==
    CASE kind \in {"ReadError", "ParseError", "InvalidRequest",
                   "RequestTooLarge"} -> internal_server_error
      [] kind \in {"ConnectionClosed", "ConnectionTimedOut"} -> 0

\* variant: ConnectionTimedOut is answered like a read error
read_error_response_timeout(kind) ==
    CASE kind \in {"ReadError", "ParseError", "InvalidRequest",
                   "ConnectionTimedOut"} -> internal_server_error
      [] kind = "RequestTooLarge" -> request_entity_too_large
      [] kind = "ConnectionClosed" -> 0

\* The arms of the match on Request::read in handle_connection: the status
\* answered for an error kind, 0 for the arms that return without a response
read_error_response(kind) ==
    CASE kind \in {"ReadError", "ParseError", "InvalidRequest"} -> internal_server_error
      [] kind = "RequestTooLarge" -> request_entity_too_large
      [] kind \in {"ConnectionClosed", "ConnectionTimedOut"} -> 0

\* variant: the two arms exchanged
route_error_response_swapped(kind) ==
    CASE kind = "MethodNotAllowed" -> not_found
      [] kind = "NotFound" -> method_not_allowed

\* The arms of the match on resolve in handle_connection
route_error_response(kind) ==
    CASE kind = "MethodNotAllowed" -> method_not_allowed
      [] kind = "NotFound" -> not_found

\* no function is being called
FnIdle ==
    /\ fn_call = <<>>
    /\ fn_result = <<>>
    /\ registered = <<>>

\* no head is being measured
SizeIdle ==
    /\ sz_pc = "-"
    /\ sz_lines = 0
    /\ sz_acc = 0
    /\ sz_buf = 0
    /\ sz_result = "-"

\* no request is being read
ReadIdle ==
    /\ rd_sent = <<>>
    /\ rd_data = <<>>
    /\ rd_end = "-"
    /\ rd_result = <<>>
    /\ rd_wire = <<>>
    /\ rd_reads = <<>>

\* no response value is under construction
RespIdle ==
    /\ resp = <<>>
    /\ resp_calls = <<>>
    /\ resp_steps = 0
    /\ resp_out = <<>>

\* no call of match_route is under way
MatchIdle ==
    /\ mr_route = <<>>
    /\ mr_incoming = <<>>
    /\ mr_result = <<>>

\* the server before listen()
ServerIdle ==
    /\ routes = <<>>
    /\ lpc = "setup"
    /\ accepted = 0
    /\ stream = "none"
    /\ hpc = "idle"
    /\ parsed = NoRead
    /\ resolved = NoRoute
    /\ events = <<>>
    /\ invoked = NoRead
    /\ worker = 0

Init ==
    /\ routes = <<>>
    /\ lpc = "setup"
    /\ accepted = 0
    /\ stream = "none"
    /\ hpc = "idle"
    /\ parsed = NoRead
    /\ resolved = NoRoute
    /\ events = <<>>
    /\ invoked = NoRead
    /\ worker = 0
    /\ mr_route = <<>>
    /\ mr_incoming = <<>>
    /\ mr_result = <<>>
    /\ RespIdle
    /\ ReadIdle
    /\ SizeIdle
    /\ FnIdle

connVars == << accepted, stream, hpc, parsed, resolved, events, invoked,
              worker >>

\* server.get(..), server.post(..), server.add_route(..): Server::register_route
RegisterRoute(path, method, handler) ==
    /\ lpc = "setup"
    /\ Len(routes) < MaxRoutes
    /\ routes' = register_route(routes, path, method, handler)
    /\ UNCHANGED << lpc, connVars, pureVars >>

\* server.group(prefix, |group| group.add_route(..)): Server::group builds the
\* RouteGroup over the server's table, the closure registers through it
RegisterInGroup(prefix, path, method, handler) ==
    /\ lpc = "setup"
    /\ Len(routes) < MaxRoutes
    /\ routes' = group_register_route(join_path(<<"/">>, prefix), routes,
                                      path, method, handler)
    /\ UNCHANGED << lpc, connVars, pureVars >>

\* Server::listen: bind, then listen_with_pool
Listen ==
    /\ lpc = "setup"
    /\ lpc' = "accept"
    /\ UNCHANGED << routes, connVars, pureVars >>

\* Server::listen: TcpListener::bind fails, expect() panics
ListenBindFails ==
    /\ lpc = "setup"
    /\ lpc' = "panicked"
    /\ UNCHANGED << routes, connVars, pureVars >>

\* listen_with_pool: incoming.next() yields a connection
Accept ==
    /\ lpc = "accept"
    /\ accepted < MaxConns
    /\ accepted' = accepted + 1
    /\ stream' = "open"
    /\ hpc' = "idle"
    /\ parsed' = NoRead
    /\ resolved' = NoRoute
    /\ events' = <<>>
    /\ invoked' = NoRead
    /\ lpc' = "set_read_timeout"
    /\ UNCHANGED << routes, worker, pureVars >>

\* listen_with_pool: incoming.next() yields an error, expect() panics
AcceptFails ==
    /\ lpc = "accept"
    /\ lpc' = "panicked"
    /\ UNCHANGED << routes, connVars, pureVars >>

\* variant: after the 500 the connection is given up and the loop accepts the
\* next one
SetReadTimeoutOrDrop(set_ok, write_ok) ==
    /\ lpc = "set_read_timeout"
    /\ LET evs == Append(events, Event("set_read_timeout", "listen_with_pool",
                                       0, set_ok))
       IN  events' = IF set_ok THEN evs
                     ELSE send_response(evs, "listen_with_pool",
                                        internal_server_error, write_ok)
    /\ lpc' = IF set_ok THEN "set_write_timeout" ELSE "accept"
    /\ UNCHANGED << routes, accepted, stream, hpc, parsed, resolved,
                    invoked, worker, pureVars >>

\* listen_with_pool: stream.set_read_timeout; on failure a 500 is sent and
\* the loop body goes on
SetReadTimeout(set_ok, write_ok) ==
    /\ lpc = "set_read_timeout"
    /\ LET evs == Append(events, Event("set_read_timeout", "listen_with_pool",
                                       0, set_ok))
       IN  events' = IF set_ok THEN evs
                     ELSE send_response(evs, "listen_with_pool",
                                        internal_server_error, write_ok)
    /\ lpc' = "set_write_timeout"
    /\ UNCHANGED << routes, accepted, stream, hpc, parsed, resolved,
                    invoked, worker, pureVars >>

\* listen_with_pool: stream.set_write_timeout, likewise
SetWriteTimeout(set_ok, write_ok) ==
    /\ lpc = "set_write_timeout"
    /\ LET evs == Append(events, Event("set_write_timeout", "listen_with_pool",
                                       0, set_ok))
       IN  events' = IF set_ok THEN evs
                     ELSE send_response(evs, "listen_with_pool",
                                        internal_server_error, write_ok)
    /\ lpc' = "dispatch"
    /\ UNCHANGED << routes, accepted, stream, hpc, parsed, resolved,
                    invoked, worker, pureVars >>

\* variant: the job runs on a thread started beside the pool
DispatchUnpooled(w) ==
    /\ lpc = "dispatch"
    /\ worker' = PoolSize + w
    /\ hpc' = "read"
    /\ lpc' = "join"
    /\ UNCHANGED << routes, accepted, stream, parsed, resolved,
                    events, invoked, pureVars >>

\* listen_with_pool: pool.scoped(|scope| scope.execute(..)): the job starts on
\* one of the pool's threads and the main thread waits inside scoped() for
\* the scope to end
Dispatch(w) ==
    /\ lpc = "dispatch"
    /\ worker' = w
    /\ hpc' = "read"
    /\ lpc' = "join"
    /\ UNCHANGED << routes, accepted, stream, parsed, resolved,
                    events, invoked, pureVars >>

\* handle_connection, lines 102-126: Request::read and the match on its result
HandleRead(result, write_ok) ==
    /\ hpc = "read"
    /\ parsed' = result
    /\ LET evs == Append(events, Event("read", "handle_connection", 0, TRUE))
       IN  IF result.kind = "Ok"
           THEN /\ events' = evs
                /\ hpc' = "resolve"
                /\ stream' = stream
                /\ worker' = worker
           ELSE /\ events' =
                     IF read_error_response(result.kind) = 0 THEN evs
                     ELSE send_response(evs, "handle_connection",
                                        read_error_response(result.kind),
                                        write_ok)
                /\ hpc' = "done"
                /\ stream' = "closed"
                /\ worker' = 0
    /\ UNCHANGED << routes, lpc, accepted, resolved, invoked, pureVars >>

\* handle_connection, lines 128-138: resolve and the match on its result
HandleResolve(write_ok) ==
    /\ hpc = "resolve"
    /\ resolved' = resolve(parsed.path, parsed.method, routes)
    /\ LET evs == Append(events, Event("resolve", "handle_connection", 0, TRUE))
       IN  IF resolved'.kind = "Ok"
           THEN /\ events' = evs
                /\ hpc' = "invoke"
                /\ stream' = stream
                /\ worker' = worker
           ELSE /\ events' = send_response(evs, "handle_connection",
                                 route_error_response(resolved'.kind), write_ok)
                /\ hpc' = "done"
                /\ stream' = "closed"
                /\ worker' = 0
    /\ UNCHANGED << routes, lpc, accepted, parsed, invoked, pureVars >>

\* variant: the response is written before the handler is called
HandleInvokeWriteFirst(write_ok) ==
    /\ hpc = "invoke"
    /\ invoked' = parsed
    /\ LET response == call_handler(routes[resolved.idx].handler)
           code == IF response.ok THEN response.code
                   ELSE internal_server_error
       IN  events' = Append(send_response(events, "handle_connection", code,
                                          write_ok),
                            Event("invoke", "handle_connection", 0,
                                  response.ok))
    /\ hpc' = "done"
    /\ stream' = "closed"
    /\ worker' = 0
    /\ UNCHANGED << routes, lpc, accepted, parsed, resolved,
                    pureVars >>

\* handle_connection, lines 140-150: the handler call and the match on its
\* result
HandleInvoke(write_ok) ==
    /\ hpc = "invoke"
    /\ invoked' = parsed
    /\ LET response == call_handler(routes[resolved.idx].handler)
           evs == Append(events, Event("invoke", "handle_connection", 0,
                                       response.ok))
       IN  events' = IF response.ok
                     THEN send_response(evs, "handle_connection",
                                        response.code, write_ok)
                     ELSE send_response(evs, "handle_connection",
                                        internal_server_error, write_ok)
    /\ hpc' = "done"
    /\ stream' = "closed"
    /\ worker' = 0
    /\ UNCHANGED << routes, lpc, accepted, parsed, resolved,
                    pureVars >>

\* listen_with_pool: scoped() returns once the job has ended; next iteration
Join ==
    /\ lpc = "join"
    /\ hpc = "done"
    /\ lpc' = "accept"
    /\ UNCHANGED << routes, connVars, pureVars >>

Next ==
    \/ \E p \in RegPaths, m \in RegMethods, h \in Handlers :
            RegisterRoute(p, m, h)
    \/ \E g \in GroupPrefixes, p \in GroupPaths, m \in RegMethods,
          h \in Handlers : RegisterInGroup(g, p, m, h)
    \/ Listen
    \/ ListenBindFails
    \/ Accept
    \/ AcceptFails
    \/ \E set_ok \in BOOLEAN, write_ok \in BOOLEAN :
            SetReadTimeout(set_ok, write_ok)
    \/ \E set_ok \in BOOLEAN, write_ok \in BOOLEAN :
            SetWriteTimeout(set_ok, write_ok)
    \/ \E w \in 1..PoolSize : Dispatch(w)
    \/ \E r \in ReadResults, write_ok \in BOOLEAN : HandleRead(r, write_ok)
    \/ \E write_ok \in BOOLEAN : HandleResolve(write_ok)
    \/ \E write_ok \in BOOLEAN : HandleInvoke(write_ok)
    \/ Join

Spec == Init /\ [][Next]_vars

----------------------------------------------------------------------------
(* match_route as a function of its two arguments *)

RouteChars == {"/", ":", "a"}
IncomingChars == {"/", "a", "b"}

InitMatch ==
    /\ routes = <<>>
    /\ lpc = "setup"
    /\ accepted = 0
    /\ stream = "none"
    /\ hpc = "idle"
    /\ parsed = NoRead
    /\ resolved = NoRoute
    /\ events = <<>>
    /\ invoked = NoRead
    /\ worker = 0
    /\ mr_route \in Strings(RouteChars, MaxRouteLen)
    /\ mr_incoming \in Strings(IncomingChars, MaxIncomingLen)
    /\ mr_result = <<>>
    /\ RespIdle
    /\ ReadIdle
    /\ SizeIdle
    /\ FnIdle

CallMatchRoute ==
    /\ mr_result = <<>>
    /\ mr_result' = << match_route(mr_route, mr_incoming) >>
    /\ UNCHANGED << mr_route, mr_incoming, serverVars, sizeVars,
                    fnVars, respVars, readVars >>

NextMatch == CallMatchRoute

SpecMatch == InitMatch /\ [][NextMatch]_vars

----------------------------------------------------------------------------
(* Properties of the dispatcher *)

Count(evs, ev) == Cardinality({ i \in DOMAIN evs : evs[i].ev = ev })

IsSendBy(e, by) == e.ev = "send" /\ e.by = by

\* the status codes handle_connection passed to send_response, in order
HandlerSends ==
    LET sent == SelectSeq(events, LAMBDA e : IsSendBy(e, "handle_connection"))
    IN  [i \in DOMAIN sent |-> sent[i].code]

SilentKinds == {"ConnectionClosed", "ConnectionTimedOut"}

\* C1: over the whole lifetime of a connection at most one response is sent
\* and at most one request is read, and once handling has ended with a parse
\* outcome other than ConnectionClosed and ConnectionTimedOut exactly one
\* response was sent and the connection is closed.
C1_ExactlyOneResponse ==
    /\ Count(events, "send") <= 1
    /\ Count(events, "read") <= 1
    /\ (hpc = "done" /\ parsed.kind \notin SilentKinds)
            => (Count(events, "send") = 1 /\ stream = "closed")

\* C2: when handling has ended after a parse failure of kind ReadError,
\* ParseError or InvalidRequest, handle_connection sent exactly a 500; after
\* RequestTooLarge exactly a 413; resolve was not called and no handler ran.
C2_ParseFailureAnswered ==
    (hpc = "done" /\ parsed.kind \in ReadErrors \ SilentKinds) =>
        /\ HandlerSends = IF parsed.kind = "RequestTooLarge"
                          THEN << 413 >> ELSE << 500 >>
        /\ Count(events, "resolve") = 0
        /\ Count(events, "invoke") = 0
        /\ resolved = NoRoute

C2_Witness ==
    /\ hpc = "done"
    /\ parsed.kind = "RequestTooLarge"
    /\ HandlerSends = << 413 >>

\* C3: when handling has ended after ConnectionClosed or ConnectionTimedOut,
\* handle_connection sent nothing, did not call resolve and ran no handler,
\* and the connection is closed.
C3_SilentDrop ==
    (hpc = "done" /\ parsed.kind \in SilentKinds) =>
        /\ HandlerSends = << >>
        /\ Count(events, "resolve") = 0
        /\ Count(events, "invoke") = 0
        /\ resolved = NoRoute
        /\ stream = "closed"

C3_Witness ==
    /\ hpc = "done"
    /\ parsed.kind = "ConnectionTimedOut"
    /\ Count(events, "read") = 1
    /\ Len(routes) > 0

\* C4: when handling has ended after a successful parse: NotFound was answered
\* with exactly a 404 and MethodNotAllowed with exactly a 405, no handler
\* having run; for a resolved route its handler ran exactly once, and its Ok
\* response (201 for h_created) is the one sent, its error gives a 500.
C4_RoutingOutcomeMapped ==
    (hpc = "done" /\ parsed.kind = "Ok") =>
        /\ Count(events, "resolve") = 1
        /\ resolved.kind = "NotFound" =>
                (HandlerSends = << 404 >> /\ Count(events, "invoke") = 0)
        /\ resolved.kind = "MethodNotAllowed" =>
                (HandlerSends = << 405 >> /\ Count(events, "invoke") = 0)
        /\ resolved.kind = "Ok" =>
                /\ Count(events, "invoke") = 1
                /\ routes[resolved.idx].handler = "h_created"
                        => HandlerSends = << 201 >>
                /\ routes[resolved.idx].handler = "h_err"
                        => HandlerSends = << 500 >>
        /\ resolved.kind \in {"NotFound", "MethodNotAllowed", "Ok"}

C4_Witness ==
    /\ hpc = "done"
    /\ resolved.kind = "Ok"
    /\ routes[resolved.idx].handler = "h_created"
    /\ HandlerSends = << 201 >>

----------------------------------------------------------------------------
(* Properties of resolve and of registration *)

PathMatches(i) == match_route(routes[i].path, parsed.path)
BothMatch(i) == PathMatches(i) /\ routes[i].method = parsed.method

\* C5: once resolve has returned: if some route of the table matches the path
\* and the method the result is a route; and the result is MethodNotAllowed
\* only if some route matches the path and none matches path and method.
C5_NoMethodNotAllowedWhenRouteExists ==
    (resolved.kind # "-") =>
        /\ (\E i \in DOMAIN routes : BothMatch(i)) => resolved.kind = "Ok"
        /\ resolved.kind = "MethodNotAllowed" =>
                /\ \E i \in DOMAIN routes : PathMatches(i)
                /\ \A i \in DOMAIN routes : ~BothMatch(i)

\* C6: once resolve has returned, the result is NotFound exactly when no
\* route of the table has a pattern that matches the path.
C6_NotFoundIffNoPathMatch ==
    (resolved.kind # "-") =>
        (resolved.kind = "NotFound"
            <=> \A i \in DOMAIN routes : ~PathMatches(i))

C6_Witness ==
    /\ resolved.kind = "NotFound"
    /\ Len(routes) = 2
    /\ routes[1].method # routes[2].method
    /\ parsed.path = << "/", "b" >>

\* C7: a route returned by resolve is in the table, matches the path and the
\* method, and no route before it in the table matches both.
C7_FirstMatchWins ==
    (resolved.kind = "Ok") =>
        /\ resolved.idx \in DOMAIN routes
        /\ BothMatch(resolved.idx)
        /\ \A j \in 1..(resolved.idx - 1) : ~BothMatch(j)

C7_Witness ==
    /\ resolved.kind = "Ok"
    /\ resolved.idx = 1
    /\ \E j \in DOMAIN routes :
            j > 1 /\ BothMatch(j) /\ routes[j].path # routes[1].path

Pair(r) == << r.method, r.path >>
Pairs(table) == { Pair(table[i]) : i \in DOMAIN table }
AtMostOnePerPair(table) ==
    \A i, j \in DOMAIN table : Pair(table[i]) = Pair(table[j]) => i = j

\* C8: every step that changes the table leaves at most one route per
\* (method, pattern); and a step that changes the table without adding a new
\* (method, pattern), a registration of an existing pair, keeps the number of
\* routes, keeps every position's (method, pattern) and changes the handler at
\* one position only.
C8_ReRegistrationInPlace ==
    [][ (routes' # routes) =>
            /\ AtMostOnePerPair(routes')
            /\ (Pairs(routes') = Pairs(routes)) =>
                    /\ Len(routes') = Len(routes)
                    /\ \A i \in DOMAIN routes : Pair(routes'[i]) = Pair(routes[i])
                    /\ Cardinality({ i \in DOMAIN routes :
                                        routes'[i] # routes[i] }) = 1
      ]_vars

----------------------------------------------------------------------------
(* Properties of match_route *)

SlashPositions(s) == { i \in 1..Len(s) : s[i] = "/" }
SegmentCount(s) == Cardinality(SlashPositions(s)) + 1

\* the position of the k-th '/' of s; 0 for k = 0, Len(s) + 1 past the last
Slash(s, k) ==
    IF k = 0 THEN 0
    ELSE IF k > Cardinality(SlashPositions(s)) THEN Len(s) + 1
    ELSE CHOOSE i \in SlashPositions(s) :
            Cardinality({ j \in SlashPositions(s) : j <= i }) = k

\* the k-th segment of s: the text between the (k-1)-th and the k-th '/'
Segment(s, k) == SubSeq(s, Slash(s, k - 1) + 1, Slash(s, k) - 1)

SegmentsAgree(route, incoming) ==
    /\ SegmentCount(route) = SegmentCount(incoming)
    /\ \A k \in 1..SegmentCount(route) :
            \/ (Segment(route, k) # <<>> /\ Segment(route, k)[1] = ":")
            \/ Segment(route, k) = Segment(incoming, k)

C10_ParamNeedsNonEmptySegment ==
    (mr_result # <<>> /\ SegmentCount(mr_route) = SegmentCount(mr_incoming)) =>
        ((\E k \in 1..SegmentCount(mr_route) :
                /\ Segment(mr_route, k) # <<>>
                /\ Segment(mr_route, k)[1] = ":"
                /\ Segment(mr_incoming, k) = <<>>)
            => mr_result[1] = FALSE)

\* The bindings a ':name' pattern gives for a path it matches: the name
\* after the ':' bound to the path segment at the same position.
PathParams(pattern, path) ==
    { << Tail(Segment(pattern, k)), Segment(path, k) >> :
        k \in { j \in 1..SegmentCount(pattern) :
                    /\ Segment(pattern, j) # <<>>
                    /\ Segment(pattern, j)[1] = ":" } }

\* C11: the request the parser produced has an empty path-parameter mapping,
\* and the request a handler is invoked with binds every ':name' segment of
\* the resolved route's pattern to the path segment matched at its position.
C11_ParamsFilledBeforeHandler ==
    /\ (parsed.kind = "Ok") => (parsed.params = {})
    /\ (invoked.kind = "Ok") =>
            invoked.params = PathParams(routes[resolved.idx].path,
                                        invoked.path)

\* The states of the accept loop of listen_with_pool.
LoopStates ==
    { "accept", "set_read_timeout", "set_write_timeout", "dispatch", "join" }

\* The number of pool threads that are running handle_connection.
BusyWorkers == Cardinality({ w \in 1..PoolSize : worker = w })

\* C18: the accept loop waits for a connection's handling only while every
\* one of the PoolSize workers is busy.
C18_BlockedOnlyWhenPoolSaturated ==
    (lpc = "join" /\ hpc # "done") => BusyWorkers = PoolSize

\* C19: once the accept loop is running, no step of accepting or handling a
\* connection takes the server out of the loop.
C19_ServerSurvivesErrors ==
    [][(lpc \in LoopStates) => (lpc' \in LoopStates)]_vars

----------------------------------------------------------------------------
(* Text: the characters of a string and the std operations on them *)

Digits == << "0", "1", "2", "3", "4", "5", "6", "7", "8", "9" >>
UpperCase ==
    << "A", "B", "C", "D", "E", "F", "G", "H", "I", "J", "K", "L", "M", "N",
    "O", "P", "Q", "R", "S", "T", "U", "V", "W", "X", "Y", "Z" >>
LowerCase ==
    << "a", "b", "c", "d", "e", "f", "g", "h", "i", "j", "k", "l", "m", "n",
    "o", "p", "q", "r", "s", "t", "u", "v", "w", "x", "y", "z" >>

\* the printable ASCII characters in byte order, from ' ' (32) to '~' (126);
\* the grave accent (96), which no text of the model contains, is spelled out
Printable ==
    << " ", "!", "\"", "#", "$", "%", "&", "'", "(", ")", "*", "+", ",", "-",
    ".", "/", "0", "1", "2", "3", "4", "5", "6", "7", "8", "9", ":", ";",
    "<", "=", ">", "?", "@", "A", "B", "C", "D", "E", "F", "G", "H", "I",
    "J", "K", "L", "M", "N", "O", "P", "Q", "R", "S", "T", "U", "V", "W",
    "X", "Y", "Z", "[", "\\", "]", "^", "_", "GRAVE", "a", "b", "c", "d", "e",
    "f", "g", "h", "i", "j", "k", "l", "m", "n", "o", "p", "q", "r", "s",
    "t", "u", "v", "w", "x", "y", "z", "{", "|", "}", "~" >>

Range(s) == { s[i] : i \in 1..Len(s) }

IndexOf(s, c) == CHOOSE i \in 1..Len(s) : s[i] = c

\* the byte of an ASCII character: the order of str comparison
byte(c) ==
    IF c = "\n" THEN 10
    ELSE IF c = "\r" THEN 13
    ELSE IF c = "\t" THEN 9
    ELSE 31 + IndexOf(Printable, c)

is_alphanumeric(c) == c \in Range(Digits) \cup Range(UpperCase) \cup Range(LowerCase)

char_to_uppercase(c) ==
    IF c \in Range(LowerCase) THEN UpperCase[IndexOf(LowerCase, c)] ELSE c

char_to_lowercase(c) ==
    IF c \in Range(UpperCase) THEN LowerCase[IndexOf(UpperCase, c)] ELSE c

to_uppercase(s) == [i \in 1..Len(s) |-> char_to_uppercase(s[i])]

to_lowercase(s) == [i \in 1..Len(s) |-> char_to_lowercase(s[i])]

\* Ord for str: lexicographic by bytes, a proper prefix being smaller
RECURSIVE str_lt(_, _)
str_lt(a, b) ==
    IF b = <<>> THEN FALSE
    ELSE IF a = <<>> THEN TRUE
    ELSE IF byte(Head(a)) # byte(Head(b)) THEN byte(Head(a)) < byte(Head(b))
    ELSE str_lt(Tail(a), Tail(b))

RECURSIVE join(_, _)
join(parts, sep) ==
    IF parts = <<>> THEN <<>>
    ELSE IF Len(parts) = 1 THEN parts[1]
    ELSE parts[1] \o sep \o join(Tail(parts), sep)

RECURSIVE trim_end_matches(_, _)
trim_end_matches(s, c) ==
    IF Len(s) > 0 /\ s[Len(s)] = c
    THEN trim_end_matches(SubSeq(s, 1, Len(s) - 1), c)
    ELSE s

\* format!("{}", n) for an unsigned integer
RECURSIVE to_decimal(_)
to_decimal(n) ==
    IF n < 10 THEN << Digits[n + 1] >>
    ELSE to_decimal(n \div 10) \o << Digits[(n % 10) + 1] >>

RECURSIVE concat(_)
concat(parts) ==
    IF parts = <<>> THEN <<>> ELSE Head(parts) \o concat(Tail(parts))

CRLF == << "\r", "\n" >>

----------------------------------------------------------------------------
(* Responses: src/src/http/response.rs, src/src/response.rs, src/src/utils.rs *)

HTTP_VERSION == << "H", "T", "T", "P", "/", "1", ".", "1" >>

get_status_text(code) ==
    IF code = 100 THEN
        << "C", "o", "n", "t", "i", "n", "u", "e" >>
    ELSE IF code = 101 THEN
        << "S", "w", "i", "t", "c", "h", "i", "n", "g", " ", "P", "r", "o",
        "t", "o", "c", "o", "l", "s" >>
    ELSE IF code = 102 THEN
        << "P", "r", "o", "c", "e", "s", "s", "i", "n", "g" >>
    ELSE IF code = 103 THEN
        << "E", "a", "r", "l", "y", " ", "H", "i", "n", "t", "s" >>
    ELSE IF code = 200 THEN
        << "O", "K" >>
    ELSE IF code = 201 THEN
        << "C", "r", "e", "a", "t", "e", "d" >>
    ELSE IF code = 202 THEN
        << "A", "c", "c", "e", "p", "t", "e", "d" >>
    ELSE IF code = 203 THEN
        << "N", "o", "n", "-", "A", "u", "t", "h", "o", "r", "i", "t", "a",
        "t", "i", "v", "e", " ", "I", "n", "f", "o", "r", "m", "a", "t", "i",
        "o", "n" >>
    ELSE IF code = 204 THEN
        << "N", "o", " ", "C", "o", "n", "t", "e", "n", "t" >>
    ELSE IF code = 205 THEN
        << "R", "e", "s", "e", "t", " ", "C", "o", "n", "t", "e", "n", "t" >>
    ELSE IF code = 206 THEN
        << "P", "a", "r", "t", "i", "a", "l", " ", "C", "o", "n", "t", "e",
        "n", "t" >>
    ELSE IF code = 207 THEN
        << "M", "u", "l", "t", "i", "-", "S", "t", "a", "t", "u", "s" >>
    ELSE IF code = 208 THEN
        << "A", "l", "r", "e", "a", "d", "y", " ", "R", "e", "p", "o", "r",
        "t", "e", "d" >>
    ELSE IF code = 226 THEN
        << "I", "M", " ", "U", "s", "e", "d" >>
    ELSE IF code = 300 THEN
        << "M", "u", "l", "t", "i", "p", "l", "e", " ", "C", "h", "o", "i",
        "c", "e", "s" >>
    ELSE IF code = 301 THEN
        << "M", "o", "v", "e", "d", " ", "P", "e", "r", "m", "a", "n", "e",
        "n", "t", "l", "y" >>
    ELSE IF code = 302 THEN
        << "F", "o", "u", "n", "d" >>
    ELSE IF code = 303 THEN
        << "S", "e", "e", " ", "O", "t", "h", "e", "r" >>
    ELSE IF code = 304 THEN
        << "N", "o", "t", " ", "M", "o", "d", "i", "f", "i", "e", "d" >>
    ELSE IF code = 307 THEN
        << "T", "e", "m", "p", "o", "r", "a", "r", "y", " ", "R", "e", "d",
        "i", "r", "e", "c", "t" >>
    ELSE IF code = 308 THEN
        << "P", "e", "r", "m", "a", "n", "e", "n", "t", " ", "R", "e", "d",
        "i", "r", "e", "c", "t" >>
    ELSE IF code = 400 THEN
        << "B", "a", "d", " ", "R", "e", "q", "u", "e", "s", "t" >>
    ELSE IF code = 401 THEN
        << "U", "n", "a", "u", "t", "h", "o", "r", "i", "z", "e", "d" >>
    ELSE IF code = 403 THEN
        << "F", "o", "r", "b", "i", "d", "d", "e", "n" >>
    ELSE IF code = 404 THEN
        << "N", "o", "t", " ", "F", "o", "u", "n", "d" >>
    ELSE IF code = 405 THEN
        << "M", "e", "t", "h", "o", "d", " ", "N", "o", "t", " ", "A", "l",
        "l", "o", "w", "e", "d" >>
    ELSE IF code = 406 THEN
        << "N", "o", "t", " ", "A", "c", "c", "e", "p", "t", "a", "b", "l",
        "e" >>
    ELSE IF code = 407 THEN
        << "P", "r", "o", "x", "y", " ", "A", "u", "t", "h", "e", "n", "t",
        "i", "c", "a", "t", "i", "o", "n", " ", "R", "e", "q", "u", "i", "r",
        "e", "d" >>
    ELSE IF code = 408 THEN
        << "R", "e", "q", "u", "e", "s", "t", " ", "T", "i", "m", "e", "o",
        "u", "t" >>
    ELSE IF code = 409 THEN
        << "C", "o", "n", "f", "l", "i", "c", "t" >>
    ELSE IF code = 410 THEN
        << "G", "o", "n", "e" >>
    ELSE IF code = 411 THEN
        << "L", "e", "n", "g", "t", "h", " ", "R", "e", "q", "u", "i", "r",
        "e", "d" >>
    ELSE IF code = 412 THEN
        << "P", "r", "e", "c", "o", "n", "d", "i", "t", "i", "o", "n", " ",
        "F", "a", "i", "l", "e", "d" >>
    ELSE IF code = 413 THEN
        << "P", "a", "y", "l", "o", "a", "d", " ", "T", "o", "o", " ", "L",
        "a", "r", "g", "e" >>
    ELSE IF code = 414 THEN
        << "U", "R", "I", " ", "T", "o", "o", " ", "L", "o", "n", "g" >>
    ELSE IF code = 415 THEN
        << "U", "n", "s", "u", "p", "p", "o", "r", "t", "e", "d", " ", "M",
        "e", "d", "i", "a", " ", "T", "y", "p", "e" >>
    ELSE IF code = 416 THEN
        << "R", "a", "n", "g", "e", " ", "N", "o", "t", " ", "S", "a", "t",
        "i", "s", "f", "i", "a", "b", "l", "e" >>
    ELSE IF code = 417 THEN
        << "E", "x", "p", "e", "c", "t", "a", "t", "i", "o", "n", " ", "F",
        "a", "i", "l", "e", "d" >>
    ELSE IF code = 418 THEN
        << "I", "'", "m", " ", "a", " ", "t", "e", "a", "p", "o", "t" >>
    ELSE IF code = 421 THEN
        << "M", "i", "s", "d", "i", "r", "e", "c", "t", "e", "d", " ", "R",
        "e", "q", "u", "e", "s", "t" >>
    ELSE IF code = 422 THEN
        << "U", "n", "p", "r", "o", "c", "e", "s", "s", "a", "b", "l", "e",
        " ", "E", "n", "t", "i", "t", "y" >>
    ELSE IF code = 423 THEN
        << "L", "o", "c", "k", "e", "d" >>
    ELSE IF code = 424 THEN
        << "F", "a", "i", "l", "e", "d", " ", "D", "e", "p", "e", "n", "d",
        "e", "n", "c", "y" >>
    ELSE IF code = 425 THEN
        << "T", "o", "o", " ", "E", "a", "r", "l", "y" >>
    ELSE IF code = 426 THEN
        << "U", "p", "g", "r", "a", "d", "e", " ", "R", "e", "q", "u", "i",
        "r", "e", "d" >>
    ELSE IF code = 428 THEN
        << "P", "r", "e", "c", "o", "n", "d", "i", "t", "i", "o", "n", " ",
        "R", "e", "q", "u", "i", "r", "e", "d" >>
    ELSE IF code = 429 THEN
        << "T", "o", "o", " ", "M", "a", "n", "y", " ", "R", "e", "q", "u",
        "e", "s", "t", "s" >>
    ELSE IF code = 431 THEN
        << "R", "e", "q", "u", "e", "s", "t", " ", "H", "e", "a", "d", "e",
        "r", " ", "F", "i", "e", "l", "d", "s", " ", "T", "o", "o", " ", "L",
        "a", "r", "g", "e" >>
    ELSE IF code = 451 THEN
        << "U", "n", "a", "v", "a", "i", "l", "a", "b", "l", "e", " ", "F",
        "o", "r", " ", "L", "e", "g", "a", "l", " ", "R", "e", "a", "s", "o",
        "n", "s" >>
    ELSE IF code = 500 THEN
        << "I", "n", "t", "e", "r", "n", "a", "l", " ", "S", "e", "r", "v",
        "e", "r", " ", "E", "r", "r", "o", "r" >>
    ELSE IF code = 501 THEN
        << "N", "o", "t", " ", "I", "m", "p", "l", "e", "m", "e", "n", "t",
        "e", "d" >>
    ELSE IF code = 502 THEN
        << "B", "a", "d", " ", "G", "a", "t", "e", "w", "a", "y" >>
    ELSE IF code = 503 THEN
        << "S", "e", "r", "v", "i", "c", "e", " ", "U", "n", "a", "v", "a",
        "i", "l", "a", "b", "l", "e" >>
    ELSE IF code = 504 THEN
        << "G", "a", "t", "e", "w", "a", "y", " ", "T", "i", "m", "e", "o",
        "u", "t" >>
    ELSE IF code = 505 THEN
        << "H", "T", "T", "P", " ", "V", "e", "r", "s", "i", "o", "n", " ",
        "N", "o", "t", " ", "S", "u", "p", "p", "o", "r", "t", "e", "d" >>
    ELSE IF code = 506 THEN
        << "V", "a", "r", "i", "a", "n", "t", " ", "A", "l", "s", "o", " ",
        "N", "e", "g", "o", "t", "i", "a", "t", "e", "s" >>
    ELSE IF code = 507 THEN
        << "I", "n", "s", "u", "f", "f", "i", "c", "i", "e", "n", "t", " ",
        "S", "t", "o", "r", "a", "g", "e" >>
    ELSE IF code = 508 THEN
        << "L", "o", "o", "p", " ", "D", "e", "t", "e", "c", "t", "e", "d" >>
    ELSE IF code = 510 THEN
        << "N", "o", "t", " ", "E", "x", "t", "e", "n", "d", "e", "d" >>
    ELSE IF code = 511 THEN
        << "N", "e", "t", "w", "o", "r", "k", " ", "A", "u", "t", "h", "e",
        "n", "t", "i", "c", "a", "t", "i", "o", "n", " ", "R", "e", "q", "u",
        "i", "r", "e", "d" >>
    ELSE << "U", "n", "k", "n", "o", "w", "n" >>

to_title_case(s) ==
    IF s = <<>> THEN <<>>
    ELSE << char_to_uppercase(s[1]) >> \o to_lowercase(Tail(s))

\* Regex [^a-zA-Z0-9]+ with replace_all(key, "-"): every maximal run of
\* characters that are not ASCII letters or digits becomes one '-'
RECURSIVE replace_all(_, _)
replace_all(key, in_run) ==
    IF key = <<>> THEN <<>>
    ELSE IF is_alphanumeric(Head(key))
         THEN << Head(key) >> \o replace_all(Tail(key), FALSE)
         ELSE (IF in_run THEN <<>> ELSE << "-" >>)
                  \o replace_all(Tail(key), TRUE)

\* variant: the case of the letters left as it is
sanitize_header_key_cased(key) ==
    LET result == replace_all(key, FALSE)
    IN  trim_end_matches(result, "-")

sanitize_header_key(key) ==
    LET result == replace_all(key, FALSE)
        parts == split(result, "-")
        titled == [i \in 1..Len(parts) |-> to_title_case(parts[i])]
    IN  trim_end_matches(join(titled, << "-" >>), "-")

\* HashMap<String, String>: the entries << key, value >> in the order the map
\* iterates them, which the map chooses freely; keys are unique
contains_key(map, key) == \E i \in 1..Len(map) : map[i][1] = key

get(map, key) == map[CHOOSE i \in 1..Len(map) : map[i][1] = key][2]

keys(map) == [i \in 1..Len(map) |-> map[i][1]]

\* HashMap::insert: the value of a present key is replaced, a new key goes
\* to the place pos of the iteration order
hm_insert(map, key, value, pos) ==
    IF contains_key(map, key)
    THEN [i \in 1..Len(map) |->
            IF map[i][1] = key THEN << key, value >> ELSE map[i]]
    ELSE SubSeq(map, 1, pos - 1) \o << << key, value >> >>
            \o SubSeq(map, pos, Len(map))

RECURSIVE sort_insert(_, _)
sort_insert(sorted, key) ==
    IF sorted = <<>> THEN << key >>
    ELSE IF str_lt(key, Head(sorted)) THEN << key >> \o sorted
    ELSE << Head(sorted) >> \o sort_insert(Tail(sorted), key)

\* variant: the keys left in the iteration order of the map
sort_unsorted(ks) == ks

\* slice::sort of keys: ascending in the order of str
RECURSIVE sort(_)
sort(ks) ==
    IF ks = <<>> THEN <<>>
    ELSE sort_insert(sort(SubSeq(ks, 1, Len(ks) - 1)), ks[Len(ks)])

new(status_code) ==
    [status_code |-> status_code,
     content_type |-> << "t", "e", "x", "t", "/", "p", "l", "a", "i", "n" >>,
     headers |-> <<>>,
     body |-> <<>>,
     cookies |-> <<>>]

header_line(name, value) == name \o << ":", " " >> \o value \o CRLF

\* variant: the Set-Cookie lines put before the custom headers
to_string_cookies_first(r) ==
    LET header_keys == sort(keys(r.headers))
    IN  HTTP_VERSION \o << " " >> \o to_decimal(r.status_code) \o << " " >>
            \o get_status_text(r.status_code) \o CRLF
        \o header_line(<< "C", "o", "n", "t", "e", "n", "t", "-", "T", "y", "p",
                    "e" >>, r.content_type)
        \o header_line(<< "C", "o", "n", "t", "e", "n", "t", "-", "L", "e",
                       "n", "g", "t", "h" >>,
                       to_decimal(Len(r.body)))
        \o concat([i \in 1..Len(r.cookies) |->
                    header_line(<< "S", "e", "t", "-", "C", "o", "o", "k",
                                "i", "e" >>,
                                r.cookies[i])])
        \o concat([i \in 1..Len(header_keys) |->
                    header_line(header_keys[i],
                                get(r.headers, header_keys[i]))])
        \o CRLF
        \o r.body

to_string(r) ==
    LET header_keys == sort(keys(r.headers))
    IN  HTTP_VERSION \o << " " >> \o to_decimal(r.status_code) \o << " " >>
            \o get_status_text(r.status_code) \o CRLF
        \o header_line(<< "C", "o", "n", "t", "e", "n", "t", "-", "T", "y", "p",
                    "e" >>, r.content_type)
        \o header_line(<< "C", "o", "n", "t", "e", "n", "t", "-", "L", "e",
                       "n", "g", "t", "h" >>,
                       to_decimal(Len(r.body)))
        \o concat([i \in 1..Len(header_keys) |->
                    header_line(header_keys[i],
                                get(r.headers, header_keys[i]))])
        \o concat([i \in 1..Len(r.cookies) |->
                    header_line(<< "S", "e", "t", "-", "C", "o", "o", "k",
                                "i", "e" >>,
                                r.cookies[i])])
        \o CRLF
        \o r.body

header(r, key, value, pos) ==
    [r EXCEPT !.headers = hm_insert(@, sanitize_header_key(key), value, pos)]

with_header(r, key, value, pos) ==
    [r EXCEPT !.headers = hm_insert(@, key, value, pos)]

body(r, b) == [r EXCEPT !.body = b]

content_type(r, ct) == [r EXCEPT !.content_type = ct]

status(r, code) == [r EXCEPT !.status_code = code]

\* variant: the body set, the content type left as it was
html_keeps_type(r, b) == [r EXCEPT !.body = b]

html(r, b) == [r EXCEPT !.content_type = << "t", "e", "x", "t", "/", "h", "t", "m", "l" >>, !.body = b]

with_cookie(r, cookie) == [r EXCEPT !.cookies = Append(@, cookie)]

\* format!("{:02}", n), as %d, %H, %M and %S print
pad2(n) == IF n < 10 THEN << "0" >> \o to_decimal(n) ELSE to_decimal(n)

\* DateTime::format("%a, %d %b %Y %H:%M:%S GMT")
format_date(t) ==
    t.weekday \o << ",", " " >> \o pad2(t.day) \o << " " >> \o t.month
        \o << " " >> \o to_decimal(t.year) \o << " " >> \o pad2(t.hour)
        \o << ":" >> \o pad2(t.minute) \o << ":" >> \o pad2(t.second)
        \o << " ", "G", "M", "T" >>

\* the text set_cookie makes of its arguments; an Option is <<>> for None and
\* << v >> for Some(v), in_30_days is Utc::now() + Duration::days(30)
cookie_str(key, value, samesite, http_only, secure, max_age, expires, in_30_days) ==
    key \o << "=" >> \o value
        \o (IF samesite \in { << "S", "t", "r", "i", "c", "t" >>,
                              << "L", "a", "x" >>,
                              << "N", "o", "n", "e" >> }
            THEN << ";", " ", "S", "a", "m", "e", "S", "i", "t", "e", "=" >> \o samesite
            ELSE <<>>)
        \o << ";", " ", "M", "a", "x", "-", "A", "g", "e", "=" >>
        \o (IF max_age # <<>> THEN to_decimal(max_age[1])
            ELSE to_decimal(60 * 60 * 24 * 30))
        \o << ";", " ", "E", "x", "p", "i", "r", "e", "s", "=" >>
        \o (IF expires # <<>> THEN format_date(expires[1])
            ELSE format_date(in_30_days))
        \o (IF http_only THEN << ";", " ", "H", "t", "t", "p", "O", "n", "l",
                           "y" >> ELSE <<>>)
        \o (IF secure THEN << ";", " ", "S", "e", "c", "u", "r", "e" >> ELSE <<>>)

\* variant: the cookie set in place of the cookies there were
set_cookie_replacing(r, key, value, samesite, http_only, secure, max_age, expires, in_30_days) ==
    [r EXCEPT !.cookies =
        << cookie_str(key, value, samesite, http_only, secure, max_age,
                      expires, in_30_days) >>]

set_cookie(r, key, value, samesite, http_only, secure, max_age, expires, in_30_days) ==
    [r EXCEPT !.cookies =
        Append(@, cookie_str(key, value, samesite, http_only, secure, max_age,
                             expires, in_30_days))]

redirect(r, url, pos) ==
    [r EXCEPT !.status_code = 302,
              !.headers = hm_insert(@, << "L", "o", "c", "a", "t", "i", "o", "n" >>, url, pos)]

----------------------------------------------------------------------------
(* The builder steps and to_string as a state machine *)

MaxSteps == 3

RespCodes == { 200, 404 }
HeaderKeys ==
    { << "c", "o", "n", "t", "e", "n", "t", "-", "l", "e", "n", "g", "t", "h" >>,
      << "x", "-", "b" >>,
      << "X", "_", "a" >> }
HeaderValues == { << "5" >>, << "v" >> }
RawHeaderValues == { << "5" >> }
RawHeaderKeys ==
    { << "C", "o", "n", "t", "e", "n", "t", "-", "L", "e", "n", "g", "t", "h" >> }
Bodies ==
    { << "h", "i" >>,
      << "0", "1", "2", "3", "4", "5", "6", "7", "8", "9", "a", "b" >> }
ContentTypes == { << "t", "e", "x", "t", "/", "c", "s", "s" >> }
HtmlBodies == { << "h", "i" >> }
Cookies == { << "a", "=", "1" >>, << "b", "=", "2" >> }
Urls == { << "/", "x" >> }

InitResp ==
    /\ ServerIdle
    /\ MatchIdle
    /\ ReadIdle
    /\ SizeIdle
    /\ FnIdle
    /\ resp \in { new(code) : code \in RespCodes }
    /\ resp_calls = <<>>
    /\ resp_steps = 0
    /\ resp_out = <<>>

Building == resp_out = <<>> /\ resp_steps < MaxSteps

Call(fn, key, value) == [fn |-> fn, key |-> key, value |-> value]

Header(key, value, pos) ==
    /\ Building
    /\ resp' = header(resp, key, value, pos)
    /\ resp_calls' = Append(resp_calls, Call("header", key, value))
    /\ resp_steps' = resp_steps + 1
    /\ UNCHANGED << resp_out, serverVars, sizeVars, fnVars, matchVars,
                    readVars >>

WithHeader(key, value, pos) ==
    /\ Building
    /\ resp' = with_header(resp, key, value, pos)
    /\ resp_calls' = Append(resp_calls, Call("with_header", key, value))
    /\ resp_steps' = resp_steps + 1
    /\ UNCHANGED << resp_out, serverVars, sizeVars, fnVars, matchVars,
                    readVars >>

Redirect(url, pos) ==
    /\ Building
    /\ resp' = redirect(resp, url, pos)
    /\ resp_calls' = Append(resp_calls, Call("redirect", <<>>, url))
    /\ resp_steps' = resp_steps + 1
    /\ UNCHANGED << resp_out, serverVars, sizeVars, fnVars, matchVars,
                    readVars >>

\* a builder step that leaves the headers alone
Step(r) ==
    /\ Building
    /\ resp' = r
    /\ resp_steps' = resp_steps + 1
    /\ UNCHANGED << resp_calls, resp_out, serverVars, sizeVars,
                    fnVars, matchVars,
                    readVars >>

Body(b) == Step(body(resp, b))

ContentType(ct) == Step(content_type(resp, ct))

Status(code) == Step(status(resp, code))

Html(b) == Step(html(resp, b))

WithCookie(cookie) == Step(with_cookie(resp, cookie))

CallToString ==
    /\ resp_out = <<>>
    /\ resp_out' = << to_string(resp) >>
    /\ UNCHANGED << resp, resp_calls, resp_steps, serverVars, sizeVars,
                    fnVars, matchVars,
                    readVars >>

NextResp ==
    \/ \E key \in HeaderKeys, value \in HeaderValues,
          pos \in 1..(Len(resp.headers) + 1) : Header(key, value, pos)
    \/ \E key \in RawHeaderKeys, value \in RawHeaderValues,
          pos \in 1..(Len(resp.headers) + 1) : WithHeader(key, value, pos)
    \/ \E url \in Urls, pos \in 1..(Len(resp.headers) + 1) : Redirect(url, pos)
    \/ \E b \in Bodies : Body(b)
    \/ \E ct \in ContentTypes : ContentType(ct)
    \/ \E code \in RespCodes : Status(code)
    \/ \E b \in HtmlBodies : Html(b)
    \/ \E cookie \in Cookies : WithCookie(cookie)
    \/ CallToString

SpecResp == InitResp /\ [][NextResp]_vars

----------------------------------------------------------------------------
(* The configuration steps of a response, set_cookie among them, one by one *)

Instant(weekday, day, month, year, hour, minute, second) ==
    [weekday |-> weekday, day |-> day, month |-> month, year |-> year,
     hour |-> hour, minute |-> minute, second |-> second]

\* the clock: what Utc::now() + Duration::days(30) may be
Instants ==
    { Instant(<< "S", "a", "t" >>, 5, << "D", "e", "c" >>, 2026, 7, 0, 9),
      Instant(<< "T", "h", "u" >>, 31, << "D", "e", "c" >>, 2026, 23, 59, 59) }

CookieArgs(key, value, samesite, http_only, secure, max_age, expires) ==
    [key |-> key, value |-> value, samesite |-> samesite,
     http_only |-> http_only, secure |-> secure, max_age |-> max_age,
     expires |-> expires]

CookieCalls ==
    { CookieArgs(<< "s", "i", "d" >>, << "1" >>, << "S", "t", "r", "i", "c", "t" >>, TRUE, FALSE, <<>>, <<>>),
      CookieArgs(<< "s", "i", "d" >>, << "2" >>, << "l", "a", "x" >>, FALSE, TRUE, << 60 >>,
                 << Instant(<< "F", "r", "i" >>, 1, << "J", "a", "n" >>, 2027, 0, 0, 0) >>) }

InitBuild ==
    /\ ServerIdle
    /\ MatchIdle
    /\ ReadIdle
    /\ SizeIdle
    /\ FnIdle
    /\ resp \in { new(code) : code \in RespCodes }
    /\ resp_calls = <<>>
    /\ resp_steps = 0
    /\ resp_out = <<>>

SetCookie(c, in_30_days) ==
    Step(set_cookie(resp, c.key, c.value, c.samesite, c.http_only, c.secure,
                    c.max_age, c.expires, in_30_days))

NextBuild ==
    \/ \E code \in RespCodes : Status(code)
    \/ \E key \in HeaderKeys, value \in RawHeaderValues,
          pos \in 1..(Len(resp.headers) + 1) : Header(key, value, pos)
    \/ \E ct \in ContentTypes : ContentType(ct)
    \/ \E b \in Bodies : Body(b)
    \/ \E c \in CookieCalls, in_30_days \in Instants : SetCookie(c, in_30_days)

SpecBuild == InitBuild /\ [][NextBuild]_vars

----------------------------------------------------------------------------
(* Properties of the serialized response *)

StripCR(line) ==
    IF Len(line) > 0 /\ line[Len(line)] = "\r"
    THEN SubSeq(line, 1, Len(line) - 1) ELSE line

LineFeeds(text) == { i \in 1..Len(text) : text[i] = "\n" }

\* the position of the k-th line feed of a text; 0 and Len(text) + 1 stand
\* for the ends of the text
LineFeed(text, k) ==
    IF k = 0 THEN 0
    ELSE IF k > Cardinality(LineFeeds(text)) THEN Len(text) + 1
    ELSE CHOOSE p \in LineFeeds(text) :
            Cardinality({ q \in LineFeeds(text) : q <= p }) = k

\* the lines of a text, without their line ends
TextLines(text) ==
    [k \in 1..(Cardinality(LineFeeds(text)) + 1) |->
        StripCR(SubSeq(text, LineFeed(text, k - 1) + 1,
                       LineFeed(text, k) - 1))]

\* the lines before the first empty line
HeadLines(text) ==
    LET ls == TextLines(text)
        blank == CHOOSE i \in 1..Len(ls) :
                    ls[i] = <<>> /\ \A j \in 1..(i - 1) : ls[j] # <<>>
    IN  SubSeq(ls, 1, blank - 1)

ColonAt(line) ==
    CHOOSE i \in 1..Len(line) :
        line[i] = ":" /\ \A j \in 1..(i - 1) : line[j] # ":"

FieldName(line) == SubSeq(line, 1, ColonAt(line) - 1)

\* what follows the ": " of a header line
FieldValue(line) == SubSeq(line, ColonAt(line) + 2, Len(line))

RECURSIVE DecimalValue(_)
DecimalValue(s) ==
    IF s = <<>> THEN 0
    ELSE 10 * DecimalValue(SubSeq(s, 1, Len(s) - 1))
            + (IndexOf(Digits, s[Len(s)]) - 1)

IsContentLength(line) ==
    /\ \E i \in 1..Len(line) : line[i] = ":"
    /\ to_lowercase(FieldName(line)) = << "c", "o", "n", "t", "e", "n", "t", "-", "l", "e", "n", "g",
            "t", "h" >>

\* C12: every Content-Length line of the serialized text carries the byte
\* length of the body, whatever headers the builder steps have set.
C12_ContentLengthIsBodyLength ==
    (resp_out # <<>>) =>
        \A i \in 1..Len(HeadLines(resp_out[1])) :
            IsContentLength(HeadLines(resp_out[1])[i]) =>
                /\ FieldValue(HeadLines(resp_out[1])[i]) \in Strings(Range(Digits), 3)
                /\ DecimalValue(FieldValue(HeadLines(resp_out[1])[i]))
                        = Len(resp.body)

\* C13: the serialized text is, in this order, the status line, the
\* Content-Type line, the Content-Length line, one line per custom header with
\* the keys ascending, one Set-Cookie line per cookie in insertion order, an
\* empty line and the body; every line before the body ends in CRLF.
C13_FixedOrder ==
    (resp_out # <<>>) =>
        LET ls == HeadLines(resp_out[1])
            nh == Len(resp.headers)
            nc == Len(resp.cookies)
        IN  /\ Len(ls) = 3 + nh + nc
            /\ ls[1] = HTTP_VERSION \o << " " >> \o to_decimal(resp.status_code)
                        \o << " " >> \o get_status_text(resp.status_code)
            /\ ls[2] = << "C", "o", "n", "t", "e", "n", "t", "-", "T", "y", "p", "e" >>
                        \o << ":", " " >> \o resp.content_type
            /\ ls[3] = << "C", "o", "n", "t", "e", "n", "t", "-", "L", "e", "n", "g", "t", "h" >>
                        \o << ":", " " >> \o to_decimal(Len(resp.body))
            /\ \A i \in 1..nh :
                    /\ \E e \in Range(resp.headers) :
                            ls[3 + i] = e[1] \o << ":", " " >> \o e[2]
                    /\ i < nh =>
                            str_lt(FieldName(ls[3 + i]), FieldName(ls[4 + i]))
            /\ \A i \in 1..nc :
                    ls[3 + nh + i] = << "S", "e", "t", "-", "C", "o", "o", "k", "i", "e" >>
                                        \o << ":", " " >> \o resp.cookies[i]
            /\ resp_out[1] = concat([i \in 1..Len(ls) |-> ls[i] \o CRLF])
                                \o CRLF \o resp.body
            /\ (resp = body(header(header(new(200), << "x", "-", "b" >>, << "v" >>, 1),
                                   << "X", "_", "a" >>, << "5" >>, 2), << "h", "i" >>))
                    => resp_out[1] =
                        << "H", "T", "T", "P", "/", "1", ".", "1", " ", "2",
                        "0", "0", " ", "O", "K", "\r", "\n", "C", "o", "n",
                        "t", "e", "n", "t", "-", "T", "y", "p", "e", ":",
                        " ", "t", "e", "x", "t", "/", "p", "l", "a", "i",
                        "n", "\r", "\n", "C", "o", "n", "t", "e", "n", "t",
                        "-", "L", "e", "n", "g", "t", "h", ":", " ", "2",
                        "\r", "\n", "X", "-", "A", ":", " ", "5", "\r", "\n",
                        "X", "-", "B", ":", " ", "v", "\r", "\n", "\r", "\n",
                        "h", "i" >>

C13_Witness ==
    /\ resp = body(header(header(new(200), << "x", "-", "b" >>, << "v" >>, 1),
                          << "X", "_", "a" >>, << "5" >>, 2), << "h", "i" >>)
    /\ resp_out # <<>>

HeaderCallsOnly ==
    \A i \in 1..Len(resp_calls) : resp_calls[i].fn = "header"

DistinctCanonicalKeys ==
    \A i, j \in 1..Len(resp_calls) :
        i # j => sanitize_header_key(resp_calls[i].key)
                    # sanitize_header_key(resp_calls[j].key)

Orders(n) ==
    { p \in [1..n -> 1..n] : \A i, j \in 1..n : i # j => p[i] # p[j] }

\* the response that the header() calls give when made in the order p on r
RECURSIVE Rebuild(_, _, _, _)
Rebuild(r, calls, p, i) ==
    IF i > Len(calls) THEN r
    ELSE Rebuild(header(r, calls[p[i]].key, calls[p[i]].value,
                        Len(r.headers) + 1),
                 calls, p, i + 1)

\* C14: when the headers were set by header() calls with pairwise different
\* canonical keys, the same calls made in any other order give the same text.
C14_HeaderOrderIndependent ==
    (resp_out # <<>> /\ HeaderCallsOnly /\ DistinctCanonicalKeys) =>
        \A p \in Orders(Len(resp_calls)) :
            to_string(Rebuild([resp EXCEPT !.headers = <<>>],
                              resp_calls, p, 1)) = resp_out[1]

C14_Witness ==
    /\ resp_out # <<>>
    /\ HeaderCallsOnly
    /\ DistinctCanonicalKeys
    /\ Len(resp_calls) >= 2
    /\ keys(resp.headers) # sort(keys(resp.headers))

----------------------------------------------------------------------------
(* The request parser: src/src/request.rs, src/src/common.rs *)

\* char::is_whitespace for the ASCII characters of the model
is_whitespace(c) == c \in { " ", "\t", "\n", "\r" }

\* str::trim
trim(s) ==
    LET keep == { i \in 1..Len(s) : ~is_whitespace(s[i]) }
    IN  IF keep = {} THEN <<>>
        ELSE SubSeq(s, CHOOSE i \in keep : \A j \in keep : i <= j,
                       CHOOSE i \in keep : \A j \in keep : j <= i)

\* str::split_whitespace: the maximal runs of characters that are not
\* whitespace, in order
split_whitespace(s) ==
    LET starts == { i \in 1..Len(s) :
                        /\ ~is_whitespace(s[i])
                        /\ (i = 1 \/ is_whitespace(s[i - 1])) }
        nth(k) == CHOOSE i \in starts :
                        Cardinality({ j \in starts : j <= i }) = k
        stop(i) == CHOOSE e \in i..Len(s) :
                        /\ \A j \in i..e : ~is_whitespace(s[j])
                        /\ (e = Len(s) \/ is_whitespace(s[e + 1]))
    IN  [k \in 1..Cardinality(starts) |-> SubSeq(s, nth(k), stop(nth(k)))]

\* variant: the split made at the last c
split_once_last(s, c) ==
    LET hits == { i \in 1..Len(s) : s[i] = c }
        at == CHOOSE i \in hits : \A j \in hits : j <= i
    IN  IF hits = {} THEN [some |-> FALSE, left |-> s, right |-> <<>>]
        ELSE [some |-> TRUE, left |-> SubSeq(s, 1, at - 1),
              right |-> SubSeq(s, at + 1, Len(s))]

\* str::split_once(c): None, or the parts before and after the first c
split_once(s, c) ==
    LET hits == { i \in 1..Len(s) : s[i] = c }
        at == CHOOSE i \in hits : \A j \in hits : i <= j
    IN  IF hits = {} THEN [some |-> FALSE, left |-> s, right |-> <<>>]
        ELSE [some |-> TRUE, left |-> SubSeq(s, 1, at - 1),
              right |-> SubSeq(s, at + 1, Len(s))]

\* HashMap of a Request: only looked up, so a function from keys to values
EmptyMap == << >>

map_insert(map, key, value) ==
    [k \in (DOMAIN map) \cup { key } |-> IF k = key THEN value ELSE map[k]]

\* variant: a token that names no method taken as GET
method_from_str_default(method) ==
    LET up == to_uppercase(method)
    IN  IF up = << "P", "O", "S", "T" >> THEN "POST" ELSE "GET"

\* variant: the token compared as it is
method_from_str_exact(method) ==
    IF method = << "G", "E", "T" >> THEN "GET"
    ELSE IF method = << "P", "O", "S", "T" >> THEN "POST"
    ELSE IF method = << "P", "U", "T" >> THEN "PUT"
    ELSE IF method = << "P", "A", "T", "C", "H" >> THEN "PATCH"
    ELSE IF method = << "D", "E", "L", "E", "T", "E" >> THEN "DELETE"
    ELSE IF method = << "H", "E", "A", "D" >> THEN "HEAD"
    ELSE IF method = << "O", "P", "T", "I", "O", "N", "S" >> THEN "OPTIONS"
    ELSE IF method = << "T", "R", "A", "C", "E" >> THEN "TRACE"
    ELSE "None"

\* HttpMethod::from_str: Some(method) as its name, None
method_from_str(method) ==
    LET up == to_uppercase(method)
    IN
        IF up = << "G", "E", "T" >> THEN "GET"
        ELSE IF up = << "P", "O", "S", "T" >> THEN "POST"
        ELSE IF up = << "P", "U", "T" >> THEN "PUT"
        ELSE IF up = << "P", "A", "T", "C", "H" >> THEN "PATCH"
        ELSE IF up = << "D", "E", "L", "E", "T", "E" >> THEN "DELETE"
        ELSE IF up = << "H", "E", "A", "D" >> THEN "HEAD"
        ELSE IF up = << "O", "P", "T", "I", "O", "N", "S" >> THEN "OPTIONS"
        ELSE IF up = << "T", "R", "A", "C", "E" >> THEN "TRACE"
        ELSE "None"

\* Version::from_str: Ok(version) as its name, Err(())
version_from_str(s) ==
    IF s = << "H", "T", "T", "P", "/", "1", ".", "1" >> THEN "HTTP1_1"
    ELSE IF s = << "H", "T", "T", "P", "/", "2", ".", "0" >> THEN "HTTP2_0"
    ELSE "Err"

\* usize::from_str: an optional '+' and at least one digit; -1 for Err
parse_usize(v) ==
    LET digits == IF Len(v) > 0 /\ v[1] = "+" THEN Tail(v) ELSE v
    IN  IF digits = <<>> \/ \E i \in 1..Len(digits) : digits[i] \notin Range(Digits)
        THEN -1
        ELSE LET RECURSIVE value(_)
                 value(n) == IF n = 0 THEN 0
                             ELSE 10 * value(n - 1)
                                    + (IndexOf(Digits, digits[n]) - 1)
             IN  value(Len(digits))

RequestErr(kind) == [kind |-> kind]

\* the arms of the matches on e.kind() in read and parse_body
classify(io_kind) ==
    CASE io_kind = "UnexpectedEof" -> "ConnectionClosed"
      [] io_kind = "TimedOut" -> "ConnectionTimedOut"
      [] io_kind \in {"ConnectionReset", "ConnectionAborted", "BrokenPipe"}
            -> "ConnectionClosed"
      [] OTHER -> "ReadError"

\* The stream behind the BufReader: the bytes `data` that arrive, and then
\* either end of stream (eof) or a failure of the read with ErrorKind io_kind.

DEFAULT_BUF_SIZE == 8192
MAX_REQUEST_SIZE == 10485760

\* a byte that is not valid UTF-8
InvalidByte == "0xFF"

\* BufRead::read_line from position pos: Ok with the line up to and with its
\* '\n' (or up to the end of the stream), or the error of the read
read_line(data, pos, eof) ==
    LET feeds == { i \in pos..Len(data) : data[i] = "\n" }
        nl == CHOOSE i \in feeds : \A j \in feeds : i <= j
    IN  IF feeds # {}
        THEN [ok |-> TRUE, line |-> SubSeq(data, pos, nl), pos |-> nl + 1]
        ELSE IF eof
        THEN [ok |-> TRUE, line |-> SubSeq(data, pos, Len(data)),
              pos |-> Len(data) + 1]
        ELSE [ok |-> FALSE, line |-> <<>>, pos |-> Len(data) + 1]

\* variant: the end of the stream before any line reported as a parse error
RECURSIVE read_lines_eof_parse(_, _, _, _, _)
read_lines_eof_parse(data, pos, eof, io_kind, lines) ==
    LET r == read_line(data, pos, eof)
    IN  IF ~r.ok THEN [kind |-> classify(io_kind), lines |-> lines, pos |-> r.pos]
        ELSE IF Len(r.line) = 0
        THEN IF lines = <<>>
             THEN [kind |-> "ParseError", lines |-> lines, pos |-> r.pos]
             ELSE [kind |-> "Ok", lines |-> lines, pos |-> r.pos]
        ELSE IF trim(r.line) = <<>>
        THEN [kind |-> "Ok", lines |-> lines, pos |-> r.pos]
        ELSE read_lines_eof_parse(data, r.pos, eof, io_kind,
                                  Append(lines, trim(r.line)))

\* variant: the end of the stream before the blank line reported as
\* ConnectionClosed
RECURSIVE read_lines_eof_closed(_, _, _, _, _)
read_lines_eof_closed(data, pos, eof, io_kind, lines) ==
    LET r == read_line(data, pos, eof)
    IN  IF ~r.ok THEN [kind |-> classify(io_kind), lines |-> lines, pos |-> r.pos]
        ELSE IF Len(r.line) = 0
        THEN [kind |-> "ConnectionClosed", lines |-> lines, pos |-> r.pos]
        ELSE IF trim(r.line) = <<>>
        THEN [kind |-> "Ok", lines |-> lines, pos |-> r.pos]
        ELSE read_lines_eof_closed(data, r.pos, eof, io_kind,
                                   Append(lines, trim(r.line)))

\* variant: blank lines before the request line passed over
RECURSIVE read_lines_skip_blank(_, _, _, _, _)
read_lines_skip_blank(data, pos, eof, io_kind, lines) ==
    LET r == read_line(data, pos, eof)
    IN  IF ~r.ok THEN [kind |-> classify(io_kind), lines |-> lines, pos |-> r.pos]
        ELSE IF Len(r.line) = 0
        THEN IF lines = <<>>
             THEN [kind |-> "ConnectionClosed", lines |-> lines, pos |-> r.pos]
             ELSE [kind |-> "Ok", lines |-> lines, pos |-> r.pos]
        ELSE IF trim(r.line) = <<>>
        THEN IF lines = <<>>
             THEN read_lines_skip_blank(data, r.pos, eof, io_kind, lines)
             ELSE [kind |-> "Ok", lines |-> lines, pos |-> r.pos]
        ELSE read_lines_skip_blank(data, r.pos, eof, io_kind,
                                   Append(lines, trim(r.line)))

\* the loop of read: the trimmed lines before the first blank line
RECURSIVE read_lines(_, _, _, _, _)
read_lines(data, pos, eof, io_kind, lines) ==
    LET r == read_line(data, pos, eof)
    IN  IF ~r.ok THEN [kind |-> classify(io_kind), lines |-> lines, pos |-> r.pos]
        ELSE IF Len(r.line) = 0
        THEN IF lines = <<>>
             THEN [kind |-> "ConnectionClosed", lines |-> lines, pos |-> r.pos]
             ELSE [kind |-> "Ok", lines |-> lines, pos |-> r.pos]
        ELSE IF trim(r.line) = <<>>
        THEN [kind |-> "Ok", lines |-> lines, pos |-> r.pos]
        ELSE read_lines(data, r.pos, eof, io_kind, Append(lines, trim(r.line)))

parse_request_line(line) ==
    LET parts == split_whitespace(line)
    IN  IF Len(parts) # 3 THEN RequestErr("ParseError")
        ELSE IF method_from_str(parts[1]) = "None" THEN RequestErr("ParseError")
        ELSE IF version_from_str(parts[3]) = "Err"
        THEN RequestErr("InvalidRequest")
        ELSE [kind |-> "Ok", method |-> method_from_str(parts[1]),
              path |-> parts[2], version |-> version_from_str(parts[3])]

\* variant: the first line of a name kept
RECURSIVE parse_headers_first(_, _)
parse_headers_first(lines, headers) ==
    IF lines = <<>> THEN headers
    ELSE LET kv == split_once(Head(lines), ":")
             key == to_lowercase(trim(kv.left))
         IN  parse_headers_first(Tail(lines),
                IF kv.some /\ key \notin DOMAIN headers
                THEN map_insert(headers, key, trim(kv.right))
                ELSE headers)

RECURSIVE parse_headers(_, _)
parse_headers(lines, headers) ==
    IF lines = <<>> THEN headers
    ELSE LET kv == split_once(Head(lines), ":")
         IN  parse_headers(Tail(lines),
                IF kv.some
                THEN map_insert(headers, to_lowercase(trim(kv.left)),
                                trim(kv.right))
                ELSE headers)

extract_query(url) ==
    LET r == split_once(url, "?")
    IN  IF r.some THEN << r.left, r.right >> ELSE << url, <<>> >>

\* variant: the first pair of a key kept
RECURSIVE parse_pairs_first(_, _)
parse_pairs_first(pairs, query_map) ==
    IF pairs = <<>> THEN query_map
    ELSE LET kv == split_once(Head(pairs), "=")
         IN  parse_pairs_first(Tail(pairs),
                IF kv.left \in DOMAIN query_map THEN query_map
                ELSE map_insert(query_map, kv.left, kv.right))

RECURSIVE parse_pairs(_, _)
parse_pairs(pairs, query_map) ==
    IF pairs = <<>> THEN query_map
    ELSE LET kv == split_once(Head(pairs), "=")
         IN  parse_pairs(Tail(pairs),
                map_insert(query_map, kv.left, kv.right))

parse_query(url) == parse_pairs(split(url, "&"), EmptyMap)

\* variant: without a usable content-length the rest of the stream is read
\* as the body
parse_body_speculative(data, pos, eof, io_kind, headers) ==
    LET key == << "c", "o", "n", "t", "e", "n", "t", "-", "l", "e", "n",
                   "g", "t", "h" >>
        parsed_len == IF key \in DOMAIN headers
                      THEN parse_usize(headers[key]) ELSE -1
        content_length == IF parsed_len <= 0 THEN Len(data) - pos + 1
                          ELSE parsed_len
        bytes == SubSeq(data, pos, pos + content_length - 1)
    IN  IF Len(data) - pos + 1 < content_length
        THEN [kind |-> classify(IF eof THEN "UnexpectedEof" ELSE io_kind),
              body |-> <<>>, read_exact |-> << content_length >>]
        ELSE IF InvalidByte \in Range(bytes)
        THEN [kind |-> "ParseError", body |-> <<>>,
              read_exact |-> << content_length >>]
        ELSE [kind |-> "Ok", body |-> bytes, read_exact |-> << content_length >>]

\* variant: the bytes decoded with String::from_utf8_lossy, "?" standing for
\* the replacement character
parse_body_lossy(data, pos, eof, io_kind, headers) ==
    LET key == << "c", "o", "n", "t", "e", "n", "t", "-", "l", "e", "n",
                   "g", "t", "h" >>
        parsed_len == IF key \in DOMAIN headers
                      THEN parse_usize(headers[key]) ELSE -1
        content_length == IF parsed_len = -1 THEN 0 ELSE parsed_len
        bytes == SubSeq(data, pos, pos + content_length - 1)
    IN  IF content_length = 0
        THEN [kind |-> "Ok", body |-> <<>>, read_exact |-> <<>>]
        ELSE IF Len(data) - pos + 1 < content_length
        THEN [kind |-> classify(IF eof THEN "UnexpectedEof" ELSE io_kind),
              body |-> <<>>, read_exact |-> << content_length >>]
        ELSE [kind |-> "Ok",
              body |-> [i \in DOMAIN bytes |->
                            IF bytes[i] = InvalidByte THEN "?" ELSE bytes[i]],
              read_exact |-> << content_length >>]

\* parse_body: Read::read_exact of content_length bytes from pos, then
\* String::from_utf8; read_exact is the sizes of the read_exact calls made
parse_body(data, pos, eof, io_kind, headers) ==
    LET key == << "c", "o", "n", "t", "e", "n", "t", "-", "l", "e", "n",
                   "g", "t", "h" >>
        parsed_len == IF key \in DOMAIN headers
                      THEN parse_usize(headers[key]) ELSE -1
        content_length == IF parsed_len = -1 THEN 0 ELSE parsed_len
        bytes == SubSeq(data, pos, pos + content_length - 1)
    IN  IF content_length = 0
        THEN [kind |-> "Ok", body |-> <<>>, read_exact |-> <<>>]
        ELSE IF Len(data) - pos + 1 < content_length
        THEN [kind |-> classify(IF eof THEN "UnexpectedEof" ELSE io_kind),
              body |-> <<>>, read_exact |-> << content_length >>]
        ELSE IF InvalidByte \in Range(bytes)
        THEN [kind |-> "ParseError", body |-> <<>>,
              read_exact |-> << content_length >>]
        ELSE [kind |-> "Ok", body |-> bytes, read_exact |-> << content_length >>]

Min(a, b) == IF a < b THEN a ELSE b

\* Request::read on a BufReader over the stream: its result, and the sizes
\* of the read_exact calls it made on the way
read_run(data, eof, io_kind) ==
    LET head == read_lines(data, 1, eof, io_kind, <<>>)
        buffered == Min(Len(data) + 1 - head.pos, DEFAULT_BUF_SIZE)
        first == parse_request_line(head.lines[1])
        headers == parse_headers(Tail(head.lines), EmptyMap)
        content == parse_body(data, head.pos, eof, io_kind, headers)
        none == <<>>
    IN  IF head.kind # "Ok"
        THEN [result |-> RequestErr(head.kind), read_exact |-> none]
        ELSE IF head.lines = <<>>
        THEN [result |-> RequestErr("ConnectionClosed"), read_exact |-> none]
        ELSE IF buffered > MAX_REQUEST_SIZE
        THEN [result |-> RequestErr("RequestTooLarge"), read_exact |-> none]
        ELSE IF first.kind # "Ok" THEN [result |-> first, read_exact |-> none]
        ELSE IF content.kind # "Ok"
        THEN [result |-> RequestErr(content.kind),
              read_exact |-> content.read_exact]
        ELSE [result |->
                [kind |-> "Ok",
                 method |-> first.method,
                 path |-> extract_query(first.path)[1],
                 version |-> first.version,
                 headers |-> headers,
                 body |-> content.body,
                 params |-> {},
                 query |-> parse_query(extract_query(first.path)[2])],
              read_exact |-> content.read_exact]

\* Request::read
read(data, eof, io_kind) == read_run(data, eof, io_kind).result

----------------------------------------------------------------------------
(* handle_connection on the bytes of a stream: src/src/server.rs *)

MaxCut == 3

RequestLines ==
    { << "G", "E", "T", " ", "/", "a", "b", "o", "u", "t", " ", "H", "T",
          "T", "P", "/", "1", ".", "1" >>,
      << "G", "E", "T", " ", "/", " ", "H", "T", "T", "P", "/", "1", ".",
          "1" >>,
      << "p", "o", "s", "t", " ", "/", "a", "?", "x", "=", "1", " ", "H",
          "T", "T", "P", "/", "2", ".", "0" >>,
      << "P", "O", "S", "T", " ", "/", "a", "b", "o", "u", "t", " ", "H",
          "T", "T", "P", "/", "1", ".", "1" >>,
      << "G", "E", "T", " ", " ", "/", " ", "H", "T", "T", "P", "/", "1",
          ".", "1" >>,
      << "I", "N", "V", "A", "L", "I", "D", " ", "/", "t", "e", "s", "t",
          " ", "H", "T", "T", "P", "/", "1", ".", "1" >>,
      << "G", "E", "T", " ", "/", "a", " ", "H", "T", "T", "P", "/", "1",
          ".", "0" >>,
      << "G", "E", "T", " ", "/", "a" >>,
      << "G", "E", "T", " ", "/", "a", " ", "H", "T", "T", "P", "/", "1",
          ".", "1", " ", "x" >>,
      << "B", "R", "E", "W", " ", "/", "a", " ", "H", "T", "T", "P", "/",
          "3" >>,
      << "G", "E", "T", " ", "/", "?", "a", "=", "1", "&", "b", "&", "a",
      "=", "2", "=", "3", " ", "H", "T", "T", "P", "/", "1", ".", "1" >>,
      << "G", "E", "T", " ", "/", "a", "b", "o", "u", "t", "?", "x", "?",
      "y", "=", "1", "&", " ", "H", "T", "T", "P", "/", "1", ".", "1" >>,
      <<>>,
      << " ", " " >> }

HeaderBlocks ==
    { <<>>,
      << << "H", "o", "s", "t", ":", " ", "x" >> >>,
      << << "C", "o", "n", "t", "e", "n", "t", "-", "L", "e", "n", "g",
            "t", "h", ":", " ", "2" >> >>,
      << << "H", "O", "S", "T", ":", " ", "x" >>,
         << "c", "o", "n", "t", "e", "n", "t", "-", "l", "e", "n", "g",
            "t", "h", ":", " ", "5" >> >>,
      << << "H", "o", "s", "t", ":", " ", "a" >>,
         << "h", "o", "s", "t", ":", " ", "b", ":", "1" >> >>,
      << << "j", "u", "n", "k" >> >>,
      << << "C", "o", "n", "t", "e", "n", "t", "-", "L", "e", "n", "g",
            "t", "h", ":", " ", "a", "b", "c" >> >>,
      << << "H", "o", "s", "t", " ", ":", " ", " ", "a", " ", "b" >>,
         << "j", "u", "n", "k" >>,
         << "H", "O", "S", "T", ":", "c", ":", "d" >> >>,
      << << "G", "E", "T", " ", "/", " ", "H", "T", "T", "P", "/", "1", ".",
         "1" >>,
         << "H", "o", "s", "t", ":", " ", "x" >> >> }

RequestBodies ==
    { <<>>,
      << "h", "i" >>,
      << "h", "e", "l", "l", "o" >>,
      << "h", InvalidByte >>,
      << "h", "i", InvalidByte >> }

StreamEnds ==
    { "Eof", "Timeout", "ConnectionReset", "ConnectionAborted", "BrokenPipe",
      "Other" }

\* the ErrorKind a failed read reports: a read that runs into the timeout set
\* by set_read_timeout fails with WouldBlock or TimedOut, as the platform has it
io_kinds(end) ==
    IF end = "Eof" THEN { "None" }
    ELSE IF end = "Timeout" THEN { "WouldBlock", "TimedOut" }
    ELSE { end }

Sent(line, headers, b) == [line |-> line, headers |-> headers, body |-> b]

\* the bytes of a request
Wire(sent) ==
    sent.line \o CRLF
        \o concat([i \in 1..Len(sent.headers) |-> sent.headers[i] \o CRLF])
        \o CRLF \o sent.body

\* the routes and handlers of the server
ExampleRoutes ==
    << Route(<< "/" >>, "GET", "h_index"),
       Route(<< "/", "a", "b", "o", "u", "t" >>, "GET", "h_about") >>

\* fn(&Request) -> io::Result<HttpResponse> of a handler
handler_result(h) ==
    IF h = "h_index"
    THEN [ok |-> TRUE, response |-> body(new(200), << "i", "n", "d", "e", "x" >>)]
    ELSE IF h = "h_about"
    THEN [ok |-> TRUE,
          response |-> html(new(200),
            << "<", "h", "1", ">", "A", "b", "o", "u", "t", " ", "p", "a",
            "g", "e", "<", "/", "h", "1", ">" >>)]
    ELSE [ok |-> FALSE, response |-> <<>>]

\* the bytes handle_connection writes for a result of Request::read, <<>> when
\* it writes nothing
handle_connection(request, table) ==
    IF request.kind # "Ok"
    THEN IF read_error_response(request.kind) = 0 THEN <<>>
         ELSE to_string(new(read_error_response(request.kind)))
    ELSE LET route == resolve(request.path, request.method, table)
             response == handler_result(table[route.idx].handler)
         IN  IF route.kind # "Ok"
             THEN to_string(new(route_error_response(route.kind)))
             ELSE IF response.ok THEN to_string(response.response)
             ELSE to_string(new(internal_server_error))

InitRead ==
    /\ ServerIdle
    /\ MatchIdle
    /\ RespIdle
    /\ SizeIdle
    /\ FnIdle
    /\ rd_sent \in { Sent(line, headers, b) :
                        line \in RequestLines, headers \in HeaderBlocks,
                        b \in RequestBodies }
    /\ rd_data \in { SubSeq(Wire(rd_sent), 1, Len(Wire(rd_sent)) - k) :
                        k \in 0..MaxCut } \cup { <<>> }
    /\ rd_end \in StreamEnds
    /\ rd_result = <<>>
    /\ rd_wire = <<>>
    /\ rd_reads = <<>>

CallRead(io_kind) ==
    /\ rd_result = <<>>
    /\ rd_result' = << read(rd_data, rd_end = "Eof", io_kind) >>
    /\ rd_reads' = read_run(rd_data, rd_end = "Eof", io_kind).read_exact
    /\ UNCHANGED << rd_sent, rd_data, rd_end, rd_wire, serverVars, sizeVars,
                    fnVars, matchVars,
                    respVars >>

CallHandleConnection ==
    /\ rd_result # <<>>
    /\ rd_wire = <<>>
    /\ rd_wire' = << handle_connection(rd_result[1], ExampleRoutes) >>
    /\ UNCHANGED << rd_sent, rd_data, rd_end, rd_result, rd_reads, serverVars, sizeVars,
                    fnVars,
                    matchVars, respVars >>

NextRead ==
    \/ \E io_kind \in io_kinds(rd_end) : CallRead(io_kind)
    \/ CallHandleConnection

SpecRead == InitRead /\ [][NextRead]_vars

----------------------------------------------------------------------------
(* The loop of Request::read by sizes: what it accumulates and what it
   checks, for heads far larger than the streams above.  The BufReader is
   the one handle_connection makes, BufReader::new, of DEFAULT_BUF_SIZE. *)

MaxLines == 3

\* sizes in bytes of the lines a stream yields
LineSizes == { 1, 4096, 1024 * 1024, 4 * 1024 * 1024, 11 * 1024 * 1024 }

\* bytes the BufReader can hold read ahead after a line: at most its capacity
BufferedSizes == { 0, 1, DEFAULT_BUF_SIZE }

\* what parse_request_line, parse_headers and parse_body make of the lines
ParseOutcomes == { "Ok", "ParseError", "InvalidRequest" }

\* variant: the bytes the lines hold measured against the budget
after_loop_counting(lines, acc, buffered, outcome) ==
    IF lines = 0 THEN "ConnectionClosed"
    ELSE IF acc > MAX_REQUEST_SIZE THEN "RequestTooLarge"
    ELSE outcome

\* read after its loop: lines.is_empty(), buffer.buffer().len() > 10 MiB,
\* then the parsing
after_loop(lines, acc, buffered, outcome) ==
    IF lines = 0 THEN "ConnectionClosed"
    ELSE IF buffered > MAX_REQUEST_SIZE THEN "RequestTooLarge"
    ELSE outcome

InitSize ==
    /\ ServerIdle
    /\ MatchIdle
    /\ RespIdle
    /\ ReadIdle
    /\ FnIdle
    /\ sz_pc = "loop"
    /\ sz_lines = 0
    /\ sz_acc = 0
    /\ sz_buf = 0
    /\ sz_result = "-"

\* read_line yields a line of n bytes that is not blank: lines.push
ReadLinePushed(n, ahead) ==
    /\ sz_pc = "loop"
    /\ sz_lines < MaxLines
    /\ sz_lines' = sz_lines + 1
    /\ sz_acc' = sz_acc + n
    /\ sz_buf' = ahead
    /\ UNCHANGED << sz_pc, sz_result, serverVars, matchVars, respVars,
                    readVars, fnVars >>

\* read_line yields a blank line: break, and the rest of read
ReadLineBlank(ahead, outcome) ==
    /\ sz_pc = "loop"
    /\ sz_pc' = "done"
    /\ sz_buf' = ahead
    /\ sz_result' = after_loop(sz_lines, sz_acc, ahead, outcome)
    /\ UNCHANGED << sz_lines, sz_acc, serverVars, matchVars, respVars,
                    readVars, fnVars >>

\* read_line yields Ok(0), the end of the stream: nothing is left in the
\* buffer
ReadLineEof(outcome) ==
    /\ sz_pc = "loop"
    /\ sz_pc' = "done"
    /\ sz_buf' = 0
    /\ sz_result' = after_loop(sz_lines, sz_acc, 0, outcome)
    /\ UNCHANGED << sz_lines, sz_acc, serverVars, matchVars, respVars,
                    readVars, fnVars >>

\* read_line fails
ReadLineErr(io_kind) ==
    /\ sz_pc = "loop"
    /\ sz_pc' = "done"
    /\ sz_result' = classify(io_kind)
    /\ UNCHANGED << sz_lines, sz_acc, sz_buf, serverVars, matchVars, respVars,
                    readVars, fnVars >>

NextSize ==
    \/ \E n \in LineSizes, ahead \in BufferedSizes : ReadLinePushed(n, ahead)
    \/ \E ahead \in BufferedSizes, outcome \in ParseOutcomes :
            ReadLineBlank(ahead, outcome)
    \/ \E outcome \in ParseOutcomes : ReadLineEof(outcome)
    \/ \E end \in StreamEnds \ { "Eof" } : \E io_kind \in io_kinds(end) :
            ReadLineErr(io_kind)

SpecSize == InitSize /\ [][NextSize]_vars

----------------------------------------------------------------------------
(* Calls of single functions: src/src/common.rs, src/src/utils.rs,
   src/src/response.rs *)

MethodNames ==
    { << "G", "E", "T" >>,
      << "P", "O", "S", "T" >>,
      << "P", "U", "T" >>,
      << "P", "A", "T", "C", "H" >>,
      << "D", "E", "L", "E", "T", "E" >>,
      << "H", "E", "A", "D" >>,
      << "O", "P", "T", "I", "O", "N", "S" >>,
      << "T", "R", "A", "C", "E" >> }

\* a name with each letter in upper or in lower case
RECURSIVE Casings(_)
Casings(name) ==
    IF name = <<>> THEN { <<>> }
    ELSE { << c >> \o rest : c \in { Head(name), char_to_lowercase(Head(name)) },
                             rest \in Casings(Tail(name)) }

\* tokens that are no method name in any case
OtherTokens ==
    { << >>,
      << "G", "E" >>,
      << "G", "E", "T", "S" >>,
      << "G", "3", "T" >>,
      << "G", "E", "T", " " >>,
      << "B", "R", "E", "W" >>,
      << "C", "O", "N", "N", "E", "C", "T" >>,
      << "p", "o", "s", "t", "s" >>,
      << "T", "r", "a", "c" >>,
      << "g", "e", "t", "1" >>,
      << "P", "0", "S", "T" >>,
      << "-" >> }

MethodTokens == UNION { Casings(name) : name \in MethodNames } \cup OtherTokens

FnCall(fn, args) == [fn |-> fn, args |-> args]

MaxPathLen == 3

\* prefixes and child paths
PathTexts == Strings({ "/", "a" }, MaxPathLen)

MaxKeyLen == 3

\* header keys: a letter in both cases and a separator, keys with other
\* separators, and the keys of test_sanitize_header_key
KeyTexts ==
    Strings({ "a", "A", "_" }, MaxKeyLen)
        \cup { << "a", " ", "a" >>, << "A", "-", " ", "a" >>,
               << "a", " ", "A", "-" >>, << " ", "a" >>, << "a", "1" >>,
               << "1", "A", "_" >>, << "C", "o", "n", "t", "e", "n", "t", "-", "T", "y", "p",
               "e" >>,
               << "c", "o", "n", "t", "e", "n", "t", "_", "t", "y", "p", "e",
               "_" >>,
               << "c", "o", "n", "t", "e", "n", "t", " ", " ", "t", "y", "p",
               "e" >>,
               << "c", "o", "n", "t", "e", "n", "t", "_", "t", "y", "p", "e",
               "_", "1" >>,
               << "a", "c", "c", "e", "s", "s", " ", "$", "^", "&", "^", "&",
               "#", "$", "&", " ", "T", "O", "K", "E", "N" >> }

FnCalls ==
    { FnCall("from_str", << token >>) : token \in MethodTokens }
        \cup { FnCall("join_path", << a, b, c >>) : a, b, c \in PathTexts }
        \cup { FnCall("header", << k1, k2 >>) : k1, k2 \in KeyTexts }

InitFn ==
    /\ ServerIdle
    /\ MatchIdle
    /\ RespIdle
    /\ ReadIdle
    /\ SizeIdle
    /\ fn_call \in FnCalls
    /\ fn_result = <<>>
    /\ registered = <<>>

CallFromStr ==
    /\ fn_call.fn = "from_str"
    /\ fn_result = <<>>
    /\ fn_result' = << method_from_str(fn_call.args[1]) >>
    /\ UNCHANGED << fn_call, registered, serverVars, matchVars, respVars,
                    readVars, sizeVars >>

\* Router::new(a).group(b, ..) and a route c registered in the group:
\* join_path(join_path(a, b), c); and the other nesting of test_join_path,
\* join_path(a, join_path(b, c))
CallJoinPath ==
    /\ fn_call.fn = "join_path"
    /\ fn_result = <<>>
    /\ LET a == fn_call.args[1]
           b == fn_call.args[2]
           c == fn_call.args[3]
       IN  fn_result' = << [group |-> join_path(a, b),
                            route |-> join_path(join_path(a, b), c),
                            inner |-> join_path(b, c),
                            outer |-> join_path(a, join_path(b, c))] >>
    /\ UNCHANGED << fn_call, registered, serverVars, matchVars, respVars,
                    readVars, sizeVars >>

\* HttpResponse::new(200).header(k1, "1").header(k2, "2"), and
\* sanitize_header_key on k1, on k2 and on its own result
CallHeader(pos) ==
    /\ fn_call.fn = "header"
    /\ fn_result = <<>>
    /\ LET k1 == fn_call.args[1]
           k2 == fn_call.args[2]
       IN  fn_result' =
             << [first |-> sanitize_header_key(k1),
                 second |-> sanitize_header_key(k2),
                 again |-> sanitize_header_key(sanitize_header_key(k1)),
                 headers |-> header(header(new(200), k1, << "1" >>, 1),
                                    k2, << "2" >>, pos).headers] >>
    /\ UNCHANGED << fn_call, registered, serverVars, matchVars, respVars,
                    readVars, sizeVars >>

NextFn ==
    \/ CallFromStr
    \/ CallJoinPath
    \/ \E pos \in 1..2 : CallHeader(pos)

SpecFn == InitFn /\ [][NextFn]_vars

----------------------------------------------------------------------------
(* Registrations on the table of a Server, one after the other, and the
   table they leave: src/src/server.rs, src/src/router.rs *)

MaxTable == 4

Registration(via, path, method, handler) ==
    [via |-> via, path |-> path, method |-> method, handler |-> handler]

InitTable ==
    /\ ServerIdle
    /\ MatchIdle
    /\ RespIdle
    /\ ReadIdle
    /\ SizeIdle
    /\ FnIdle

\* server.get(path, handler), server.post(path, handler):
\* Server::register_route
TableRegister(path, method, handler) ==
    /\ lpc = "setup"
    /\ Len(routes) < MaxTable
    /\ routes' = register_route(routes, path, method, handler)
    /\ registered' = Append(registered,
                            Registration("server", path, method, handler))
    /\ UNCHANGED << lpc, connVars, matchVars, respVars, readVars, sizeVars,
                    fn_call, fn_result >>

\* server.group(prefix, |group| group.get(path, handler)):
\* RouteGroup::register_route
TableRegisterInGroup(prefix, path, method, handler) ==
    /\ lpc = "setup"
    /\ Len(routes) < MaxTable
    /\ routes' = group_register_route(join_path(<<"/">>, prefix), routes,
                                      path, method, handler)
    /\ registered' = Append(registered,
                            Registration("group",
                                         join_path(join_path(<<"/">>, prefix), path),
                                         method, handler))
    /\ UNCHANGED << lpc, connVars, matchVars, respVars, readVars, sizeVars,
                    fn_call, fn_result >>

NextTable ==
    \/ \E method \in RegMethods, handler \in Handlers :
            TableRegister(<< "/", "a" >>, method, handler)
    \/ TableRegister(<< "/", ":" >>, "GET", "h_created")
    \/ \E handler \in Handlers :
            TableRegisterInGroup(<< "/" >>, << "/", "a" >>, "GET", handler)

SpecTable == InitTable /\ [][NextTable]_vars

----------------------------------------------------------------------------
(* Properties of the parser and of the bytes answered *)

AboutRequest ==
    << "G", "E", "T", " ", "/", "a", "b", "o", "u", "t", " ", "H", "T", "T",
    "P", "/", "1", ".", "1", "\r", "\n", "H", "o", "s", "t", ":", " ", "x",
    "\r", "\n", "\r", "\n" >>

\* C15 as stated: the bytes answered to GET /about carry Content-Length: 20.
C15_AboutPageAnswer20 ==
    (rd_data = AboutRequest /\ rd_wire # <<>>) =>
        rd_wire[1] =
            << "H", "T", "T", "P", "/", "1", ".", "1", " ", "2", "0", "0",
            " ", "O", "K", "\r", "\n", "C", "o", "n", "t", "e", "n", "t",
            "-", "T", "y", "p", "e", ":", " ", "t", "e", "x", "t", "/", "h",
            "t", "m", "l", "\r", "\n", "C", "o", "n", "t", "e", "n", "t",
            "-", "L", "e", "n", "g", "t", "h", ":", " ", "2", "0", "\r",
            "\n", "\r", "\n", "<", "h", "1", ">", "A", "b", "o", "u", "t",
            " ", "p", "a", "g", "e", "<", "/", "h", "1", ">" >>

\* C15: with GET / and GET /about registered, the latter answering 200 with
\* the html body "<h1>About page</h1>", the request bytes
\* "GET /about HTTP/1.1\r\nHost: x\r\n\r\n" are answered with exactly the status
\* line, Content-Type: text/html, Content-Length: 19, an empty line and the
\* body.
C15_AboutPageAnswer ==
    (rd_data = AboutRequest /\ rd_wire # <<>>) =>
        rd_wire[1] =
            << "H", "T", "T", "P", "/", "1", ".", "1", " ", "2", "0", "0",
            " ", "O", "K", "\r", "\n", "C", "o", "n", "t", "e", "n", "t",
            "-", "T", "y", "p", "e", ":", " ", "t", "e", "x", "t", "/", "h",
            "t", "m", "l", "\r", "\n", "C", "o", "n", "t", "e", "n", "t",
            "-", "L", "e", "n", "g", "t", "h", ":", " ", "1", "9", "\r",
            "\n", "\r", "\n", "<", "h", "1", ">", "A", "b", "o", "u", "t",
            " ", "p", "a", "g", "e", "<", "/", "h", "1", ">" >>

C15_Witness ==
    /\ rd_data = AboutRequest
    /\ rd_wire # <<>>
    /\ rd_wire[1] # <<>>

\* the method names and the methods
KnownMethods ==
    { << << "G", "E", "T" >>, "GET" >>,
      << << "P", "O", "S", "T" >>, "POST" >>,
      << << "P", "U", "T" >>, "PUT" >>,
      << << "P", "A", "T", "C", "H" >>, "PATCH" >>,
      << << "D", "E", "L", "E", "T", "E" >>, "DELETE" >>,
      << << "H", "E", "A", "D" >>, "HEAD" >>,
      << << "O", "P", "T", "I", "O", "N", "S" >>, "OPTIONS" >>,
      << << "T", "R", "A", "C", "E" >>, "TRACE" >> }

KnownVersions ==
    { << << "H", "T", "T", "P", "/", "1", ".", "1" >>, "HTTP1_1" >>,
      << << "H", "T", "T", "P", "/", "2", ".", "0" >>, "HTTP2_0" >> }

Named(table, text) == { e \in table : e[1] = text }

\* the whitespace-separated tokens of a request line
Tokens(line) == SelectSeq(split(line, " "), LAMBDA t : t # <<>>)

\* the length of the head of a request: the lines and the empty line
HeadLen(sent) == Len(Wire(sent)) - Len(sent.body)

HeadArrived == rd_sent # <<>> /\ Len(rd_data) >= HeadLen(rd_sent)

IsHeaderLine(line) ==
    /\ \E i \in 1..Len(line) : line[i] = ":"
    /\ FieldName(line) # <<>>
    /\ \A i \in 1..Len(FieldName(line)) : FieldName(line)[i] # " "
    /\ Len(line) >= ColonAt(line) + 1
    /\ line[ColonAt(line) + 1] = " "
    /\ FieldValue(line) = <<>> \/
            (FieldValue(line)[1] # " "
                /\ FieldValue(line)[Len(FieldValue(line))] # " ")

\* the positions of the header lines sent under a name, whatever its case
LinesNamed(sent, name) ==
    { i \in 1..Len(sent.headers) :
        /\ IsHeaderLine(sent.headers[i])
        /\ to_lowercase(FieldName(sent.headers[i])) = name }

Last(S) == CHOOSE i \in S : \A j \in S : j <= i

\* the Content-Length a request declares, -1 for none
Declared(sent) ==
    LET at == { i \in 1..Len(sent.headers) :
                    /\ IsContentLength(sent.headers[i])
                    /\ FieldValue(sent.headers[i]) # <<>>
                    /\ Range(FieldValue(sent.headers[i])) \subseteq Range(Digits) }
    IN  IF at = {} THEN -1
        ELSE DecimalValue(FieldValue(sent.headers[Last(at)]))

WellFormed(sent) ==
    LET parts == split(sent.line, " ")
    IN  /\ Len(parts) = 3
        /\ Named(KnownMethods, to_uppercase(parts[1])) # {}
        /\ parts[2] # <<>>
        /\ Named(KnownVersions, parts[3]) # {}
        /\ \A i \in 1..Len(sent.headers) : IsHeaderLine(sent.headers[i])
        /\ InvalidByte \notin Range(sent.body)
        /\ LinesNamed(sent, << "c", "o", "n", "t", "e", "n", "t", "-", "l", "e",
                       "n", "g", "t", "h" >>) # {}
                => Declared(sent) = Len(sent.body)
        /\ sent.body # <<>> => Declared(sent) = Len(sent.body)

BeforeQuery(target) ==
    IF \E i \in 1..Len(target) : target[i] = "?"
    THEN SubSeq(target, 1,
                (CHOOSE i \in 1..Len(target) :
                    target[i] = "?" /\ \A j \in 1..(i - 1) : target[j] # "?") - 1)
    ELSE target

\* C16: a well-formed request that arrives in full is read as a Request with
\* the method, the path, the version and the body sent, and with every header
\* sent under its lowercased name (the last line of a name giving the value).
C16_RoundTrip ==
    (rd_result # <<>> /\ WellFormed(rd_sent) /\ rd_data = Wire(rd_sent)) =>
        LET parts == split(rd_sent.line, " ")
            request == rd_result[1]
        IN  /\ request.kind = "Ok"
            /\ << to_uppercase(parts[1]), request.method >> \in KnownMethods
            /\ request.path = BeforeQuery(parts[2])
            /\ << parts[3], request.version >> \in KnownVersions
            /\ request.body = rd_sent.body
            /\ DOMAIN request.headers =
                    { to_lowercase(FieldName(rd_sent.headers[i])) :
                        i \in 1..Len(rd_sent.headers) }
            /\ \A name \in DOMAIN request.headers :
                    request.headers[name] =
                        FieldValue(rd_sent.headers[Last(LinesNamed(rd_sent, name))])

C16_Witness ==
    /\ rd_result # <<>>
    /\ WellFormed(rd_sent)
    /\ rd_data = Wire(rd_sent)
    /\ rd_sent.body # <<>>
    /\ Len(rd_sent.headers) = 2
    /\ rd_result[1].kind = "Ok"

ValidRequestLine(line) ==
    /\ Len(Tokens(line)) = 3
    /\ Named(KnownMethods, to_uppercase(Tokens(line)[1])) # {}
    /\ Named(KnownVersions, Tokens(line)[3]) # {}

\* C17: when the head of a request with a valid request line that declares
\* Content-Length: N, N > 0, has arrived and fewer than N bytes follow it,
\* Request::read returns
\* ConnectionClosed at the end of the stream and ConnectionTimedOut at the
\* read timeout, never a Request, and handle_connection writes nothing.
C17_ShortBodyIsDropped ==
    (/\ rd_result # <<>>
     /\ HeadArrived
     /\ ValidRequestLine(rd_sent.line)
     /\ Declared(rd_sent) > 0
     /\ Len(rd_data) - HeadLen(rd_sent) < Declared(rd_sent)
     /\ rd_end \in { "Eof", "Timeout" }) =>
        /\ rd_result[1].kind # "Ok"
        /\ rd_end = "Eof" => rd_result[1].kind = "ConnectionClosed"
        /\ rd_end = "Timeout" => rd_result[1].kind = "ConnectionTimedOut"
        /\ rd_wire # <<>> => rd_wire[1] = <<>>

C22_EmptyStreamIsClosed ==
    (rd_result # <<>> /\ rd_data = <<>> /\ rd_end = "Eof") =>
        /\ rd_result[1].kind = "ConnectionClosed"
        /\ rd_wire # <<>> => rd_wire[1] = <<>>

C22_Witness ==
    /\ rd_data = <<>>
    /\ rd_end = "Eof"
    /\ rd_result = << RequestErr("ConnectionClosed") >>
    /\ rd_wire = << <<>> >>

\* a text without the blanks at its ends
RECURSIVE Bare(_)
Bare(s) ==
    IF s = <<>> THEN s
    ELSE IF Head(s) \in { " ", "\t" } THEN Bare(Tail(s))
    ELSE IF s[Len(s)] \in { " ", "\t" } THEN Bare(SubSeq(s, 1, Len(s) - 1))
    ELSE s

\* the header lines sent that have a colon
Colons(sent) ==
    { i \in 1..Len(sent.headers) : ":" \in Range(sent.headers[i]) }

NameAt(sent, i) ==
    to_lowercase(Bare(SubSeq(sent.headers[i], 1, ColonAt(sent.headers[i]) - 1)))

ValueAt(sent, i) ==
    Bare(SubSeq(sent.headers[i], ColonAt(sent.headers[i]) + 1,
                Len(sent.headers[i])))

\* C23: the headers of a Request are the header lines that have a colon, each
\* split at its first colon: a name is the lowercased text before the colon
\* without the blanks around it, its value the text after the colon without
\* the blanks around it, taken from the last line of that name; a line
\* without a colon adds nothing and is no error.
C23_HeaderParsing ==
    (rd_result # <<>> /\ HeadArrived /\ rd_result[1].kind = "Ok") =>
        LET headers == rd_result[1].headers
        IN  /\ DOMAIN headers = { NameAt(rd_sent, i) : i \in Colons(rd_sent) }
            /\ \A name \in DOMAIN headers :
                    headers[name] =
                        ValueAt(rd_sent,
                                Last({ i \in Colons(rd_sent) :
                                        NameAt(rd_sent, i) = name }))

C23_Witness ==
    /\ rd_result # <<>>
    /\ HeadArrived
    /\ rd_result[1].kind = "Ok"
    /\ Len(rd_sent.headers) = 3
    /\ Cardinality(Colons(rd_sent)) = 2
    /\ DOMAIN rd_result[1].headers = { << "h", "o", "s", "t" >> }
    /\ rd_result[1].headers[<< "h", "o", "s", "t" >>] = << "c", ":", "d" >>

\* the position of the first c in s, 0 for none
FirstAt(s, c) ==
    IF c \in Range(s)
    THEN CHOOSE i \in 1..Len(s) : s[i] = c /\ \A j \in 1..(i - 1) : s[j] # c
    ELSE 0

\* what follows the first '?' of a request target
RawQuery(target) ==
    IF FirstAt(target, "?") = 0 THEN <<>>
    ELSE SubSeq(target, FirstAt(target, "?") + 1, Len(target))

\* the pairs of a raw query, each named by the position before its start
PairStarts(q) == { 0 } \cup { i \in 1..Len(q) : q[i] = "&" }

PairAt(q, a) ==
    LET stops == { i \in (a + 1)..Len(q) : q[i] = "&" } \cup { Len(q) + 1 }
    IN  SubSeq(q, a + 1, (CHOOSE i \in stops : \A j \in stops : i <= j) - 1)

PairKey(pair) ==
    IF FirstAt(pair, "=") = 0 THEN pair
    ELSE SubSeq(pair, 1, FirstAt(pair, "=") - 1)

PairValue(pair) ==
    IF FirstAt(pair, "=") = 0 THEN <<>>
    ELSE SubSeq(pair, FirstAt(pair, "=") + 1, Len(pair))

\* C24: the path of a Request is the target before its first '?' and the
\* raw query is what follows it; the query maps the key of every pair between
\* '&'s (the text before the first '=' of the pair, the whole pair when it
\* has none) to the rest of the last pair of that key (empty when the pair
\* has no '=').
C24_TargetAndQuery ==
    (rd_result # <<>> /\ HeadArrived /\ rd_result[1].kind = "Ok") =>
        LET target == Tokens(rd_sent.line)[2]
            q == RawQuery(target)
            query == rd_result[1].query
        IN  /\ rd_result[1].path = BeforeQuery(target)
            /\ DOMAIN query = { PairKey(PairAt(q, a)) : a \in PairStarts(q) }
            /\ \A key \in DOMAIN query :
                    query[key] =
                        PairValue(PairAt(q, Last({ a \in PairStarts(q) :
                                            PairKey(PairAt(q, a)) = key })))

C24_Witness ==
    /\ rd_result # <<>>
    /\ HeadArrived
    /\ rd_result[1].kind = "Ok"
    /\ rd_result[1].path = << "/" >>
    /\ DOMAIN rd_result[1].query = { << "a" >>, << "b" >> }
    /\ rd_result[1].query[<< "a" >>] = << "2", "=", "3" >>
    /\ rd_result[1].query[<< "b" >>] = << >>

\* C25: Request::read calls read_exact only for a request whose last
\* content-length header is a number above 0, and then once, for exactly that
\* many bytes, which are the body of the Request; without such a header, or
\* with the value 0, nothing is read after the empty line and the Request has
\* an empty body.
C25_BodyReadOnlyAsDeclared ==
    (rd_result # <<>> /\ HeadArrived) =>
        LET n == Declared(rd_sent)
            request == rd_result[1]
        IN  /\ rd_reads # <<>> => n > 0
            /\ (ValidRequestLine(rd_sent.line) /\ n > 0) =>
                    /\ rd_reads = << n >>
                    /\ request.kind = "Ok" =>
                            request.body = SubSeq(rd_data, HeadLen(rd_sent) + 1,
                                                  HeadLen(rd_sent) + n)
            /\ (ValidRequestLine(rd_sent.line) /\ n <= 0) =>
                    /\ rd_reads = <<>>
                    /\ request.kind = "Ok"
                    /\ request.body = <<>>

\* more bytes than declared have arrived, and exactly the declared ones are
\* read
C25_Witness ==
    /\ rd_result # <<>>
    /\ HeadArrived
    /\ Declared(rd_sent) = 2
    /\ Len(rd_data) - HeadLen(rd_sent) = 5
    /\ rd_reads = << 2 >>
    /\ rd_result[1].kind = "Ok"
    /\ rd_result[1].body = << "h", "e" >>

\* bytes follow a head without content-length, and none is read
C25_WitnessNoLength ==
    /\ rd_result # <<>>
    /\ HeadArrived
    /\ Declared(rd_sent) = -1
    /\ Len(rd_data) - HeadLen(rd_sent) = 5
    /\ rd_reads = <<>>
    /\ rd_result[1].kind = "Ok"

\* the stream fails while read is reading lines: the head has not arrived
\* and what follows the bytes is not the end of the stream
LinePhaseFailure == Len(rd_data) < HeadLen(rd_sent) /\ rd_end # "Eof"

\* the stream fails or ends while read is reading the body
BodyPhaseFailure ==
    /\ HeadArrived
    /\ ValidRequestLine(rd_sent.line)
    /\ Declared(rd_sent) > 0
    /\ Len(rd_data) - HeadLen(rd_sent) < Declared(rd_sent)

\* the kind C27 gives to what the stream does
ClassOf(end) ==
    IF end \in { "Eof", "ConnectionReset", "ConnectionAborted", "BrokenPipe" }
    THEN "ConnectionClosed"
    ELSE IF end = "Timeout" THEN "ConnectionTimedOut"
    ELSE "ReadError"

\* C27: a failure of the stream met by Request::read while it reads the
\* lines or the body is reported as ConnectionClosed for end of file, reset,
\* abort and broken pipe, as ConnectionTimedOut for a timeout and as ReadError
\* for anything else, the same in both phases.
C27_IoFailuresClassified ==
    (rd_result # <<>> /\ (LinePhaseFailure \/ BodyPhaseFailure)) =>
        rd_result[1].kind = ClassOf(rd_end)

\* C26: when the lines Request::read has accumulated hold more than 10 MiB,
\* read does not go on to parse them: it produces neither a Request nor a
\* parse error from them, its result is RequestTooLarge.
C26_HeadBudget ==
    (sz_acc > MAX_REQUEST_SIZE /\ sz_result \in ParseOutcomes \cup { "RequestTooLarge" })
        => sz_result = "RequestTooLarge"

\* a token spells a name when it has the letters of the name in their order,
\* each in upper or in lower case
Spells(token, name) ==
    /\ Len(token) = Len(name)
    /\ \A i \in 1..Len(name) :
            \/ token[i] = name[i]
            \/ token[i] = LowerCase[IndexOf(UpperCase, name[i])]

\* C21: HttpMethod::from_str gives the method of the name a token spells, in
\* whatever case each letter is, and None for a token that spells none of
\* the eight names.
C21_MethodCaseInsensitive ==
    (fn_result # <<>> /\ fn_call.fn = "from_str") =>
        LET token == fn_call.args[1]
            spelled == { e \in KnownMethods : Spells(token, e[1]) }
        IN  /\ \A e \in spelled : fn_result[1] = e[2]
            /\ spelled = {} => fn_result[1] = "None"

C21_Witness ==
    /\ fn_call = FnCall("from_str", << << "p", "A", "t", "C", "h" >> >>)
    /\ fn_result = << "PATCH" >>

\* two slashes side by side in a text
DoubleSlash(s) == \E i \in 1..(Len(s) - 1) : s[i] = "/" /\ s[i + 1] = "/"

\* the text from its first character that is not a slash
AfterSlashes(s) ==
    LET rest == { i \in 1..Len(s) : s[i] # "/" }
    IN  IF rest = {} THEN <<>>
        ELSE SubSeq(s, CHOOSE i \in rest : \A j \in rest : i <= j, Len(s))

\* C28: the path of a route registered in a group is the group's prefix
\* joined with the child path, the leading slashes of the child stripped and
\* no slash doubled; joining composes: join_path(a, join_path(b, c)) is
\* join_path(join_path(a, b), c).
C28_JoinPath ==
    (fn_result # <<>> /\ fn_call.fn = "join_path") =>
        LET b == fn_call.args[2]
            c == fn_call.args[3]
            at == Len(fn_result[1].inner) - Len(AfterSlashes(c))
        IN  /\ fn_result[1].outer = fn_result[1].route
            /\ SubSeq(fn_result[1].inner, at + 1, Len(fn_result[1].inner))
                    = AfterSlashes(c)
            /\ ~DoubleSlash(fn_result[1].inner)

\* what holds of join_path: it composes, the child is appended without its
\* leading slashes, and no slash is doubled where the two meet unless the
\* prefix ends with two already
C28_JoinPathAsIs ==
    (fn_result # <<>> /\ fn_call.fn = "join_path") =>
        LET b == fn_call.args[2]
            c == fn_call.args[3]
            at == Len(fn_result[1].inner) - Len(AfterSlashes(c))
        IN  /\ fn_result[1].outer = fn_result[1].route
            /\ SubSeq(fn_result[1].inner, at + 1, Len(fn_result[1].inner))
                    = AfterSlashes(c)
            /\ (~DoubleSlash(b) /\ ~DoubleSlash(AfterSlashes(c)))
                    => ~DoubleSlash(fn_result[1].inner)

IsLetterOrDigit(c) ==
    c \in Range(UpperCase) \cup Range(LowerCase) \cup Range(Digits)

\* the words of a key: its maximal runs of letters and digits, in lower
\* case, in order
WordStarts(key) ==
    { i \in 1..Len(key) :
        IsLetterOrDigit(key[i]) /\ (i = 1 \/ ~IsLetterOrDigit(key[i - 1])) }

WordFrom(key, i) ==
    LET ends == { j \in i..Len(key) :
                    /\ \A k \in i..j : IsLetterOrDigit(key[k])
                    /\ (j = Len(key) \/ ~IsLetterOrDigit(key[j + 1])) }
    IN  to_lowercase(SubSeq(key, i, CHOOSE j \in ends : TRUE))

Words(key) ==
    LET starts == WordStarts(key)
        nth(k) == CHOOSE i \in starts : Cardinality({ j \in starts : j <= i }) = k
    IN  [k \in 1..Cardinality(starts) |-> WordFrom(key, nth(k))]

\* two keys that differ only in the case of letters, in the characters of
\* the separators between their words, or in a separator at the end
SameKey(k1, k2) ==
    /\ Words(k1) = Words(k2)
    /\ Words(k1) # <<>>
    /\ IsLetterOrDigit(k1[1]) = IsLetterOrDigit(k2[1])

CanonicalContentType ==
    << "C", "o", "n", "t", "e", "n", "t", "-", "T", "y", "p", "e" >>

\* C29: keys that differ only in letter case, in the characters of their
\* separators or in a trailing separator have the same canonical key
\* (content_type_, "content  type" and Content-Type have Content-Type);
\* canonicalizing a canonical key changes nothing; and two header() calls
\* with such keys leave one entry, under the canonical key, with the value
\* of the second call.
C29_CanonicalHeaderKeys ==
    (fn_result # <<>> /\ fn_call.fn = "header") =>
        LET k1 == fn_call.args[1]
            k2 == fn_call.args[2]
            got == fn_result[1]
        IN  /\ got.again = got.first
            /\ Words(k1) = Words(CanonicalContentType) /\ IsLetterOrDigit(k1[1])
                    => got.first = CanonicalContentType
            /\ SameKey(k1, k2) =>
                    /\ got.first = got.second
                    /\ got.headers = << << got.first, << "2" >> >> >>

C29_Witness ==
    /\ fn_result # <<>>
    /\ fn_call = FnCall("header",
                        << << "c", "o", "n", "t", "e", "n", "t", "_", "t", "y",
                              "p", "e", "_" >>,
                           << "c", "o", "n", "t", "e", "n", "t", " ", " ", "t",
                              "y", "p", "e" >> >>)
    /\ fn_result[1].headers = << << CanonicalContentType, << "2" >> >> >>

\* the registrations of a pair made so far, as positions of the history
RegistrationsOf(method, path) ==
    { i \in DOMAIN registered :
        registered[i].method = method /\ registered[i].path = path }

\* the pair was registered again through Server::register_route, with
\* another handler than the registration before, and not registered since
Overwritten(method, path) ==
    LET regs == RegistrationsOf(method, path)
        last == Last(regs)
        before == Last(regs \ { last })
    IN  /\ Cardinality(regs) >= 2
        /\ registered[last].via = "server"
        /\ registered[last].handler # registered[before].handler

\* no route of another pair matches the path with the method
OnlyPairMatching(method, pattern, path) ==
    \A i \in DOMAIN routes :
        (match_route(routes[i].path, path) /\ routes[i].method = method)
            => routes[i].path = pattern

\* C31: once a pair has been registered again through
\* Server::register_route with another handler, resolve for a path and the
\* method of the pair returns the route with the newest handler, whatever
\* other pairs are registered before or after.
C31_NewestHandlerResolved ==
    \A method \in RegMethods, pattern \in RegPaths, path \in ReqPaths :
        (/\ Overwritten(method, pattern)
         /\ match_route(pattern, path)
         /\ OnlyPairMatching(method, pattern, path)) =>
            LET found == resolve(path, method, routes)
                newest == registered[Last(RegistrationsOf(method, pattern))]
            IN  /\ found.kind = "Ok"
                /\ routes[found.idx].handler = newest.handler

\* what holds of the table: when resolve returns a route of an overwritten
\* pair, it is the one with the newest handler, and it returns one whenever
\* no route of another pair matches the path
C31_NewestHandlerUnlessShadowed ==
    \A method \in RegMethods, pattern \in RegPaths, path \in ReqPaths :
        (Overwritten(method, pattern) /\ match_route(pattern, path)) =>
            LET found == resolve(path, method, routes)
                newest == registered[Last(RegistrationsOf(method, pattern))]
                alone == \A i \in DOMAIN routes :
                            match_route(routes[i].path, path)
                                => (routes[i].path = pattern
                                        /\ routes[i].method = method)
            IN  /\ (found.kind = "Ok" /\ routes[found.idx].path = pattern)
                        => routes[found.idx].handler = newest.handler
                /\ alone => found.kind = "Ok"

----------------------------------------------------------------------------
(* Properties of the accept loop *)

\* the status codes the accept loop passed to send_response, in order
LoopSends ==
    LET sent == SelectSeq(events, LAMBDA e : IsSendBy(e, "listen_with_pool"))
    IN  [i \in DOMAIN sent |-> sent[i].code]

\* the number of set_read_timeout / set_write_timeout calls that failed on
\* the current connection
TimeoutFailures ==
    Cardinality({ i \in DOMAIN events :
                    /\ events[i].ev \in {"set_read_timeout", "set_write_timeout"}
                    /\ ~events[i].ok })

\* C30: every failed set_read_timeout / set_write_timeout is answered with a
\* 500 from the accept loop, and a connection on which one failed is still
\* dispatched and handled: its request is read, resolved when it was read,
\* and answered by handle_connection unless the read ended silently.
C30_TimeoutFailureStillHandled ==
    /\ Len(LoopSends) = TimeoutFailures
    /\ \A i \in DOMAIN LoopSends : LoopSends[i] = internal_server_error
    /\ (TimeoutFailures > 0 /\ lpc = "accept") => hpc = "done"
    /\ (TimeoutFailures > 0 /\ hpc = "done") =>
            /\ Count(events, "read") = 1
            /\ parsed.kind = "Ok" => Count(events, "resolve") = 1
            /\ parsed.kind \notin SilentKinds => Len(HandlerSends) = 1

C30_Witness ==
    /\ TimeoutFailures = 2
    /\ hpc = "done"
    /\ lpc = "accept"
    /\ Count(events, "invoke") = 1

\* the states of handle_connection in which it is running
Running == { "read", "resolve", "invoke" }

\* the threads that are running handle_connection
Handling == { w \in 0..(2 * PoolSize) : w = worker /\ w # 0 }

\* C32: handle_connection runs on threads of the pool only, on at most
\* PoolSize of them at a time, and a connection is handled by one worker,
\* once.
C32_AtMostPoolSizeHandlers ==
    /\ Handling \subseteq 1..PoolSize
    /\ Cardinality(Handling) <= PoolSize
    /\ hpc \in Running <=> Cardinality(Handling) = 1
    /\ Count(events, "read") <= 1

C32_Witness ==
    /\ hpc = "invoke"
    /\ worker = PoolSize
    /\ accepted = MaxConns

\* the steps handle_connection has taken on the current connection, in order
Steps ==
    LET own == SelectSeq(events, LAMBDA e : e.by = "handle_connection")
    IN  [i \in DOMAIN own |-> own[i].ev]

StepOrders ==
    { <<>>, <<"read">>, <<"read", "send">>, <<"read", "resolve">>,
      <<"read", "resolve", "send">>,
      <<"read", "resolve", "invoke", "send">> }

\* C34: handle_connection parses, resolves, calls the handler and writes in
\* this order; the handler is called at most once, only for a request that was
\* parsed and on the route resolve returned for it, and its response is
\* written after the call.
C34_StepsInOrder ==
    /\ Steps \in StepOrders
    /\ Count(events, "invoke") <= 1
    /\ Count(events, "invoke") = 1 =>
          /\ parsed.kind = "Ok"
          /\ invoked = parsed
          /\ resolved = resolve(parsed.path, parsed.method, routes)
          /\ resolved.kind = "Ok"
          /\ \A i \in DOMAIN events : events[i].ev = "invoke" =>
                events[i].ok = call_handler(routes[resolved.idx].handler).ok
    /\ invoked # NoRead => Count(events, "invoke") = 1

C34_Witness ==
    /\ Steps = <<"read", "resolve", "invoke", "send">>
    /\ hpc = "done"
    /\ Len(events) > Len(Steps)

\* the bytes of the body a request declares, once all of them have arrived
DeclaredBytes ==
    SubSeq(rd_data, HeadLen(rd_sent) + 1, HeadLen(rd_sent) + Declared(rd_sent))

\* C35: when the head of a request with a valid request line has arrived with
\* all the body bytes its content-length declares and these bytes are not
\* valid UTF-8, Request::read returns ParseError, not a Request, and
\* handle_connection answers with a 500 response.
C35_InvalidUtf8Body ==
    (/\ rd_result # <<>>
     /\ HeadArrived
     /\ ValidRequestLine(rd_sent.line)
     /\ Declared(rd_sent) > 0
     /\ Len(rd_data) - HeadLen(rd_sent) >= Declared(rd_sent)
     /\ InvalidByte \in Range(DeclaredBytes)) =>
        /\ rd_result[1].kind = "ParseError"
        /\ rd_wire # <<>> =>
              /\ Len(rd_wire[1]) >= 12
              /\ SubSeq(rd_wire[1], 1, 12) = << "H", "T", "T", "P", "/", "1", ".", "1", " ", "5", "0", "0" >>

C35_Witness ==
    /\ rd_result # <<>>
    /\ HeadArrived
    /\ ValidRequestLine(rd_sent.line)
    /\ Declared(rd_sent) = 2
    /\ Len(rd_data) - HeadLen(rd_sent) >= 2
    /\ DeclaredBytes = << "h", InvalidByte >>
    /\ rd_wire # <<>>
    /\ rd_wire[1] # <<>>

\* an invalid byte after the declared ones is not read
C35_WitnessBeyond ==
    /\ rd_result # <<>>
    /\ HeadArrived
    /\ Declared(rd_sent) = 2
    /\ Len(rd_data) - HeadLen(rd_sent) >= 2
    /\ DeclaredBytes = << "h", "i" >>
    /\ InvalidByte \in Range(rd_data)
    /\ rd_result[1].kind = "Ok"

\* the pieces of the bytes that arrived, cut after every line feed: all but
\* the last are lines, the last is what the stream ends with
Received == split(rd_data, "\n")

\* the end of the stream comes after a line that is not blank and before any
\* blank line
EofBeforeBlankLine ==
    /\ rd_result # <<>>
    /\ rd_end = "Eof"
    /\ \A i \in 1..(Len(Received) - 1) : trim(Received[i]) # <<>>
    /\ Len(Received) = 1 => trim(Received[1]) # <<>>
    /\ Received[Len(Received)] # <<>> => trim(Received[Len(Received)]) # <<>>

\* the lines read, as a request without its blank line and body
ReceivedLines ==
    LET lines == SelectSeq([i \in DOMAIN Received |-> trim(Received[i])],
                           LAMBDA l : l # <<>>)
    IN  Sent(lines[1], Tail(lines), <<>>)

\* C36 as stated: at the end of the stream after a line that is not blank and
\* before any blank line, Request::read never returns ConnectionClosed.
C36_NeverClosedBeforeBlankLine ==
    EofBeforeBlankLine => rd_result[1].kind # "ConnectionClosed"

\* C36: at the end of the stream after a line that is not blank and before any
\* blank line, Request::read parses the lines read: with a valid request line
\* it returns the Request of these lines, with an empty body, when they
\* declare no body, and ConnectionClosed, from the read of the body, when
\* they declare one; without a valid request line it returns the error of
\* the request line.
C36_EofBeforeBlankLineParsed ==
    EofBeforeBlankLine =>
        LET request == rd_result[1]
            lines == ReceivedLines
        IN  /\ (ValidRequestLine(lines.line) /\ Declared(lines) <= 0) =>
                    /\ request.kind = "Ok"
                    /\ << to_uppercase(Tokens(lines.line)[1]), request.method >>
                            \in KnownMethods
                    /\ request.path = BeforeQuery(Tokens(lines.line)[2])
                    /\ request.body = <<>>
            /\ (ValidRequestLine(lines.line) /\ Declared(lines) > 0) =>
                    request.kind = "ConnectionClosed"
            /\ ~ValidRequestLine(lines.line) =>
                    request.kind \in { "ParseError", "InvalidRequest" }

C36_Witness ==
    /\ EofBeforeBlankLine
    /\ Len(Received) = 3
    /\ Received[3] = <<>>
    /\ rd_result[1].kind = "Ok"
    /\ DOMAIN rd_result[1].headers # {}

\* C37: a stream whose first line is blank, an empty line or whitespace only,
\* is read as ConnectionClosed whatever follows the line, and
\* handle_connection writes nothing for it.
C37_BlankFirstLineIsClosed ==
    (/\ rd_result # <<>>
     /\ rd_data # <<>>
     /\ trim(Received[1]) = <<>>
     /\ Len(Received) > 1 \/ rd_end = "Eof") =>
        /\ rd_result[1].kind = "ConnectionClosed"
        /\ rd_wire # <<>> => rd_wire[1] = <<>>

\* a request follows the blank line
C37_Witness ==
    /\ rd_wire # <<>>
    /\ Len(Received) > 2
    /\ Received[1] = << " ", " ", "\r" >>
    /\ ValidRequestLine(trim(Received[2]))
    /\ rd_end # "Eof"

\* C38: the query of a Request whose target has no '?', or nothing after it,
\* is empty, and every key of a query is the key of a pair of the raw query
\* (a piece between '&'s that is not empty).
C38_NoQueryNoEntries ==
    (rd_result # <<>> /\ HeadArrived /\ rd_result[1].kind = "Ok") =>
        LET q == RawQuery(Tokens(rd_sent.line)[2])
            query == rd_result[1].query
        IN  /\ q = <<>> => DOMAIN query = {}
            /\ \A key \in DOMAIN query :
                    \E a \in PairStarts(q) :
                        /\ PairAt(q, a) # <<>>
                        /\ PairKey(PairAt(q, a)) = key

----------------------------------------------------------------------------
(* Properties of the configuration steps of a response *)

\* the response r with its field changed as in response s
OnlyStatus(r, s) == [r EXCEPT !.status_code = s.status_code]
OnlyHeaders(r, s) == [r EXCEPT !.headers = s.headers]
OnlyContentType(r, s) == [r EXCEPT !.content_type = s.content_type]
OnlyBody(r, s) == [r EXCEPT !.body = s.body]
OnlyCookies(r, s) == [r EXCEPT !.cookies = s.cookies]

\* C39: status changes the status code only, header the headers only,
\* content_type the content type only, body the body only, and set_cookie
\* adds one cookie after the cookies there were and changes nothing else.
C39_StepsChangeOnlyTheirPart ==
    [][/\ \A code \in RespCodes :
            Status(code) => resp' = OnlyStatus(resp, resp')
       /\ \A key \in HeaderKeys, value \in RawHeaderValues,
             pos \in 1..(Len(resp.headers) + 1) :
            Header(key, value, pos) => resp' = OnlyHeaders(resp, resp')
       /\ \A ct \in ContentTypes :
            ContentType(ct) => resp' = OnlyContentType(resp, resp')
       /\ \A b \in Bodies : Body(b) => resp' = OnlyBody(resp, resp')
       /\ \A c \in CookieCalls, in_30_days \in Instants :
            SetCookie(c, in_30_days) =>
                /\ resp' = OnlyCookies(resp, resp')
                /\ Len(resp'.cookies) = Len(resp.cookies) + 1
                /\ SubSeq(resp'.cookies, 1, Len(resp.cookies)) = resp.cookies
      ]_vars

\* a second cookie set on a response that has a header
C39_Witness ==
    /\ Len(resp.cookies) = 2
    /\ resp.cookies[1] # resp.cookies[2]
    /\ resp.headers # <<>>
    /\ resp.cookies[2] =
            << "s", "i", "d", "=", "2", ";", " ", "M", "a", "x", "-", "A",
            "g", "e", "=", "6", "0", ";", " ", "E", "x", "p", "i", "r", "e",
            "s", "=", "F", "r", "i", ",", " ", "0", "1", " ", "J", "a", "n",
            " ", "2", "0", "2", "7", " ", "0", "0", ":", "0", "0", ":", "0",
            "0", " ", "G", "M", "T", ";", " ", "S", "e", "c", "u", "r", "e" >>

----------------------------------------------------------------------------
(* The loop of Request::read against a peer that may go on sending lines:
   the worker thread runs, and every read_line call returns, with a line,
   with the end of the stream, or with the error of the read timeout
   listen_with_pool has set.  What the peer sends is not constrained. *)

\* sizes in bytes of the lines the peer goes on sending
LongLineSizes == { 4 * 1024 * 1024, 11 * 1024 * 1024 }

\* the largest sum of line sizes told apart: it stands for itself and for
\* every larger sum
MaxAcc == MaxLines * Last(LongLineSizes)

\* read_line yields one more line that is not blank: lines.push, whatever
\* the number and the sizes of the lines pushed before; MaxLines stands for
\* MaxLines lines or more
ReadLineKept(n, ahead) ==
    /\ sz_pc = "loop"
    /\ sz_lines' = Min(sz_lines + 1, MaxLines)
    /\ sz_acc' = Min(sz_acc + n, MaxAcc)
    /\ sz_buf' = ahead
    /\ UNCHANGED << sz_pc, sz_result, serverVars, matchVars, respVars,
                    readVars, fnVars >>

NextLoop ==
    \/ \E n \in LongLineSizes, ahead \in BufferedSizes : ReadLineKept(n, ahead)
    \/ \E ahead \in BufferedSizes, outcome \in ParseOutcomes :
            ReadLineBlank(ahead, outcome)
    \/ \E outcome \in ParseOutcomes : ReadLineEof(outcome)
    \/ \E end \in StreamEnds \ { "Eof" } : \E io_kind \in io_kinds(end) :
            ReadLineErr(io_kind)

SpecLoop == InitSize /\ [][NextLoop]_vars /\ WF_vars(NextLoop)

\* C33: whatever the peer sends, the reading of a request comes to an end,
\* with a Request or with an error, so that the handling of the connection
\* can end: a peer that sends line after line without the blank line does
\* not keep the worker in the loop forever.
C33_ReadingEnds == <>(sz_pc = "done")

====
